---------------------------- MODULE Spec2Model ----------------------------
(***************************************************************************)
(* State-machine model of the CNP Battle Arena rules engine                *)
(* (js/gameEngine.js, js/effectRegistry.js, js/aiAgent.js, js/constants.js,*)
(* and the input relay of js/uiManager.js).                                *)
(*                                                                         *)
(* Cards are JavaScript objects.  createInitialGameState builds ONE array  *)
(* of card objects and deals both seats from it, so a card identifier      *)
(* names one object whose bp and rested attributes are shared by whichever *)
(* zones of whichever seat hold it: bp and rested are functions of the     *)
(* card identifier, zones hold identifiers.                                *)
(***************************************************************************)
EXTENDS Integers, Sequences, FiniteSets, TLC

(***************************************************************************)
(* Bounds of the model.  The CONFIG values of the program that would make  *)
(* the state space too large are scaled down and listed as bounds.         *)
(***************************************************************************)
MAX_TURNS == 3

MAX_REIKI == 2

INITIAL_HAND_SIZE == 2

\* how many of the five field slots the human driver clicks on
MaxClickSlots == 2

(***************************************************************************)
(* Program constants.                                                      *)
(***************************************************************************)
NUM_BASES == 3

GAUGE_PER_BASE == 2

\* null in a slot, a selection or a lookup result (card identifiers are 1..)
NoCard == 0

\* null winner / null base owner (seats are 0 and 1)
NoSeat == -1

\* value || 300 and value || 500 of the two buff skills
DefaultBuffAll == 300

DefaultBuffSelf == 500

PHASES == [START |-> "start", MAIN |-> "main", BATTLE |-> "battle", END |-> "end"]

CARD_TYPES == [UNIT |-> "unit", EVENT |-> "event", SUPPORT |-> "support", REIKI |-> "reiki"]

\* Object.keys(player.field), in insertion order
SlotOrder == <<"vanguard1", "vanguard2", "rearguard1", "rearguard2", "support">>

Slots == {SlotOrder[i] : i \in 1..Len(SlotOrder)}

\* slot.includes('vanguard'), slot.includes('rearguard')
IsVanguard(s) == s \in {"vanguard1", "vanguard2"}

IsRearguard(s) == s \in {"rearguard1", "rearguard2"}

Seats == {0, 1}

Other(p) == (p + 1) % 2

(***************************************************************************)
(* Generic sequence helpers.                                               *)
(***************************************************************************)
RECURSIVE SeqSet(_)
SeqSet(s) == IF s = <<>> THEN {} ELSE {Head(s)} \cup SeqSet(Tail(s))

\* index of the first element satisfying the test, 0 when none (findIndex = -1)
FindIndex(s, Test(_)) ==
    IF \E i \in 1..Len(s) : Test(s[i])
    THEN CHOOSE i \in 1..Len(s) : Test(s[i]) /\ \A j \in 1..(i - 1) : ~Test(s[j])
    ELSE 0

RemoveAt(s, i) == SubSeq(s, 1, i - 1) \o SubSeq(s, i + 1, Len(s))

\* Array.prototype.sort is stable.  Before(a, b): a strictly precedes b.
\* The place of s[i] in the sorted array: after every element that strictly
\* precedes it and after every earlier element that it does not precede.
SortRank(s, Before(_, _), i) ==
    1 + Cardinality({j \in 1..Len(s) :
                        \/ Before(s[j], s[i])
                        \/ (~Before(s[i], s[j]) /\ j < i)})

StableSort(s, Before(_, _)) ==
    [k \in 1..Len(s) |-> s[CHOOSE i \in 1..Len(s) : SortRank(s, Before, i) = k]]

Min(a, b) == IF a < b THEN a ELSE b

(***************************************************************************)
(* The card catalog: the finalized list initGame hands to                  *)
(* createInitialGameState (API data merged with data/cards.json).  It is   *)
(* input data; this catalog has one card per registered skill, an          *)
(* unregistered skill, plain cards, and one card of each type.             *)
(* tag stands for the substrings of the name processCardData looks for.    *)
(* value 0 / target "" / cardName "" / maxCost 0 stand for an absent key.  *)
(***************************************************************************)
NoSkill ==
    [trigger |-> "none", action |-> "", value |-> 0, target |-> "",
     cardName |-> "", maxCost |-> 0, tribe |-> ""]

Skill(trigger, action, value) ==
    [trigger |-> trigger, action |-> action, value |-> value, target |-> "",
     cardName |-> "", maxCost |-> 0, tribe |-> ""]

CardData ==
    << [name |-> "Ace",     rarity |-> "C", tribe |-> "hito",  tag |-> "",     skill |-> NoSkill],
       [name |-> "Berserk", rarity |-> "R", tribe |-> "oni",  tag |-> "",     skill |-> Skill("onAttack", "buffSelf", 0)],
       [name |-> "Rally",   rarity |-> "C", tribe |-> "hito",  tag |-> "ougi", skill |-> Skill("onPlay", "buffAllAllyUnits", 300)],
       [name |-> "Miko",    rarity |-> "C", tribe |-> "hito",  tag |-> "",     skill |-> Skill("onPlay", "gainReiki", 2)],
       [name |-> "Helper",  rarity |-> "C", tribe |-> "hito",  tag |-> "kyoryokusha", skill |-> Skill("onPlay", "draw", 1)],
       [name |-> "Sniper",  rarity |-> "C", tribe |-> "hito",  tag |-> "",     skill |-> Skill("onAttack", "destroyWeakestOpponentUnit", 0)],
       [name |-> "Bouncer", rarity |-> "RR", tribe |-> "oni", tag |-> "",     skill |-> Skill("onAttack", "returnUnitToHand", 0)],
       [name |-> "Revive",  rarity |-> "C", tribe |-> "hito",  tag |-> "ougi", skill |-> Skill("onPlay", "reviveFromTrash", 0)],
       [name |-> "Scholar", rarity |-> "C", tribe |-> "hito",  tag |-> "",     skill |-> Skill("onPlay", "discardAndDraw", 1)],
       [name |-> "Caller",  rarity |-> "C", tribe |-> "hito",  tag |-> "",
        skill |-> [Skill("onPlay", "searchAndPlay", 0) EXCEPT !.cardName = "Ace"]],
       [name |-> "Binder",  rarity |-> "P", tribe |-> "hito",  tag |-> "",
        skill |-> [Skill("onPlay", "restOpponentUnit", 0) EXCEPT !.target = "weakest"]],
       [name |-> "Oddity",  rarity |-> "C", tribe |-> "hito",  tag |-> "",     skill |-> Skill("onPlay", "mystery", 0)],
       [name |-> "Stone",   rarity |-> "C", tribe |-> "hito",  tag |-> "reiki", skill |-> NoSkill] >>

Cards == 1..Len(CardData)

\* rarityBP[card.rarity] || 1000
rarityBP(r) ==
    CASE r = "C" -> 1000 [] r = "R" -> 1500 [] r = "RR" -> 2000 [] r = "RRR" -> 2500
      [] r = "SR" -> 3000 [] r = "SEC" -> 3500 [] r = "P-RR" -> 1800
      [] r = "P-RRR" -> 3800 [] r = "SP-RRR" -> 4000 [] r = "P" -> 500
      [] OTHER -> 1000

\* rarityCost[card.rarity] || 1
rarityCost(r) ==
    CASE r = "C" -> 1 [] r = "R" -> 2 [] r = "RR" -> 2 [] r = "RRR" -> 3
      [] r = "SR" -> 3 [] r = "SEC" -> 4 [] r = "P-RR" -> 2
      [] r = "P-RRR" -> 3 [] r = "SP-RRR" -> 4 [] r = "P" -> 1
      [] OTHER -> 1

HasSkill(c) == CardData[c].skill.trigger # "none"

\* the type processCardData derives from the name and the skill
CardType(c) ==
    IF HasSkill(c) /\ CardData[c].tag = "ougi" THEN CARD_TYPES.EVENT
    ELSE IF CardData[c].tag = "kyoryokusha" THEN CARD_TYPES.SUPPORT
    ELSE IF CardData[c].tag = "reiki" THEN CARD_TYPES.REIKI
    ELSE CARD_TYPES.UNIT

\* the immutable attributes processCardData gives a card
processCardData(c) ==
    [uuid |-> c,
     name |-> CardData[c].name,
     skill |-> CardData[c].skill,
     cost |-> rarityCost(CardData[c].rarity),
     type |-> CardType(c),
     tribe |-> CardData[c].tribe,
     originalBp |-> rarityBP(CardData[c].rarity)]

Card(c) == processCardData(c)

\* rarity.startsWith('SP') || rarity.startsWith('P-')
IsPromoRarity(r) == r \in {"P-RR", "P-RRR", "SP-RRR"}

\* mainDeckRaw of createPlayerState, in catalog order
MainDeckRaw ==
    SelectSeq([i \in 1..Len(CardData) |-> i],
              LAMBDA c : Card(c).type # CARD_TYPES.REIKI /\ ~IsPromoRarity(CardData[c].rarity))

ReikiDeckRaw ==
    SelectSeq([i \in 1..Len(CardData) |-> i], LAMBDA c : Card(c).type = CARD_TYPES.REIKI)

(***************************************************************************)
(* Shuffles.  createPlayerState shuffles mainDeckRaw with a random         *)
(* comparator; the model deals each seat one of a few fixed orders.  A     *)
(* scenario is the pair of orders of seat 0 and seat 1.  The first         *)
(* INITIAL_HAND_SIZE cards become the hand, the next NUM_BASES *           *)
(* GAUGE_PER_BASE the gauge stacks, the rest the main deck, which is drawn *)
(* from its end.                                                           *)
(***************************************************************************)
Scenarios ==
    { << <<2, 1, 6, 7, 8, 9, 10, 11, 12, 5, 3, 4>>,
         <<7, 1, 3, 4, 8, 9, 10, 11, 12, 5, 2, 6>> >>,
      << <<1, 4, 5, 6, 7, 8, 9, 10, 11, 12, 2, 3>>,
         <<11, 12, 3, 4, 5, 6, 7, 8, 9, 10, 1, 2>> >>,
      << <<1, 4, 3, 5, 6, 7, 8, 9, 2, 11, 10, 12>>,
         <<2, 7, 1, 4, 5, 6, 9, 10, 11, 12, 8, 3>> >>,
      << <<9, 7, 1, 2, 3, 4, 5, 6, 8, 10, 11, 12>>,
         <<5, 9, 1, 2, 3, 4, 6, 7, 8, 10, 11, 12>> >> }

GameModes == {"PvE", "EvE"}

VARIABLES
    players,            \* state.players: the two seats' zones and reiki
    bp,                 \* card.bp of every card object
    rested,             \* card.rested of every card object
    turn,               \* state.turn
    activePlayerIndex,  \* state.activePlayerIndex
    phase,              \* state.phase
    winner,             \* state.winner (NoSeat: null)
    gameMode,           \* state.gameMode
    isProcessing,       \* engine.isProcessing
    actionPromise,      \* engine.actionPromise is set (a wait is pending)
    pc,                 \* where runGameLoop / executeTurn is suspended
    attackers,          \* the attackers array executeBattlePhase iterates over
    selectedCard,       \* ui.selectedCard
    selectedCardType,   \* ui.selectedCardType
    selectedCardSlot,   \* ui.selectedCardSlot
    modal,              \* the terminal notification shown by runGameLoop
    last,               \* observation: what the last handler call did
    charges,            \* observation: reiki-charge phases run per seat
    everBuffed,         \* observation: the cards whose bp was ever raised
    snapshotDue,        \* observation: the state changed since the last ui.update
    battleIn,           \* the powers handed to resolveBattle (SpecBattle)
    battleOut           \* what resolveBattle returned (SpecBattle)

vars ==
    <<players, bp, rested, turn, activePlayerIndex, phase, winner, gameMode,
      isProcessing, actionPromise, pc, attackers, selectedCard, selectedCardType,
      selectedCardSlot, modal, last, charges, everBuffed, snapshotDue, battleIn,
      battleOut>>

\* array.splice(0, n): the removed prefix, and what stays
SplicePrefix(s, n) == SubSeq(s, 1, Min(n, Len(s)))

SpliceRest(s, n) == SubSeq(s, Min(n, Len(s)) + 1, Len(s))

EmptyField == [s \in Slots |-> NoCard]

\* createPlayerState, for the shuffled order mainDeck
createPlayerState(shuffled) ==
    LET hand == SplicePrefix(shuffled, INITIAL_HAND_SIZE)
        afterHand == SpliceRest(shuffled, INITIAL_HAND_SIZE)
        bases == [b \in 1..NUM_BASES |->
                    [gauges |-> SplicePrefix(SpliceRest(afterHand, (b - 1) * GAUGE_PER_BASE),
                                             GAUGE_PER_BASE),
                     owner |-> NoSeat]]
    IN  [mainDeck |-> SpliceRest(afterHand, NUM_BASES * GAUGE_PER_BASE),
         reikiDeck |-> ReikiDeckRaw,
         hand |-> hand,
         bases |-> bases,
         reiki |-> 0,
         maxReiki |-> 0,
         trash |-> <<>>,
         field |-> EmptyField]

NoAction ==
    [kind |-> "none", seat |-> NoSeat, card |-> NoCard, slot |-> "", target |-> "",
     defender |-> NoCard, accepted |-> FALSE, reason |-> "", dispatched |-> 0,
     thrown |-> FALSE, asked |-> 0, drawn |-> 0]

\* createInitialGameState and the GameEngine constructor
InitGame ==
    /\ \E sc \in Scenarios :
          players = [p \in Seats |-> createPlayerState(sc[p + 1])]
    /\ gameMode \in GameModes
    /\ bp = [c \in Cards |-> Card(c).originalBp]
    /\ rested = [c \in Cards |-> FALSE]
    /\ turn = 1
    /\ activePlayerIndex = 0
    /\ phase = PHASES.START
    /\ winner = NoSeat
    /\ isProcessing = TRUE
    /\ actionPromise = FALSE
    /\ pc = "loop"
    /\ attackers = <<>>
    /\ selectedCard = NoCard
    /\ selectedCardType = ""
    /\ selectedCardSlot = ""
    /\ modal = "none"
    /\ last = NoAction
    /\ charges = [p \in Seats |-> 0]
    /\ everBuffed = {}
    /\ snapshotDue = FALSE

Init ==
    /\ InitGame
    /\ battleIn = <<0, 0>>
    /\ battleOut = "none"

(***************************************************************************)
(* The mutable game state the handlers work on, as one value G:            *)
(* G.players, G.bp, G.rested, G.winner.  A handler is an operator from G   *)
(* to the G it leaves.                                                     *)
(***************************************************************************)
CurrentG == [players |-> players, bp |-> bp, rested |-> rested, winner |-> winner]

\* isHumanTurn()
isHumanTurn == activePlayerIndex = 0 /\ gameMode = "PvE"

\* the occupied slots of a field satisfying Keep, in Object.entries order
FieldEntries(field, Keep(_, _)) ==
    SelectSeq(SlotOrder, LAMBDA s : field[s] # NoCard /\ Keep(s, field[s]))

IsUnit(c) == Card(c).type = CARD_TYPES.UNIT

\* units.sort((a, b) => a.bp - b.bp)[0] and units.sort((a, b) => b.bp - a.bp)[0]
\* over a non-empty list of slots of one field
WeakestSlot(G, field, slotSeq) ==
    StableSort(slotSeq, LAMBDA a, b : G.bp[field[a]] < G.bp[field[b]])[1]

StrongestSlot(G, field, slotSeq) ==
    StableSort(slotSeq, LAMBDA a, b : G.bp[field[a]] > G.bp[field[b]])[1]

\* drawCards(playerIndex, amount)
\* a draw that gives the game to the other seat when the deck runs out
drawCards_deckOutLoses(G, playerIndex, amount) ==
    LET player == G.players[playerIndex]
        n == Min(amount, Len(player.mainDeck))
        deckLen == Len(player.mainDeck)
        drawn == [i \in 1..n |-> player.mainDeck[deckLen + 1 - i]]
    IN  [G EXCEPT !.players[playerIndex].hand = player.hand \o drawn,
                  !.players[playerIndex].mainDeck = SubSeq(player.mainDeck, 1, deckLen - n),
                  !.winner = IF n < amount THEN Other(playerIndex) ELSE G.winner]

drawCards(G, playerIndex, amount) ==
    LET player == G.players[playerIndex]
        n == Min(amount, Len(player.mainDeck))
        deckLen == Len(player.mainDeck)
        drawn == [i \in 1..n |-> player.mainDeck[deckLen + 1 - i]]
    IN  [G EXCEPT !.players[playerIndex].hand = player.hand \o drawn,
                  !.players[playerIndex].mainDeck = SubSeq(player.mainDeck, 1, deckLen - n)]

\* sendToTrash(playerIndex, slot)
\* a trashing that leaves the card in its slot as well
sendToTrash_keepsOnField(G, playerIndex, slot) ==
    LET c == G.players[playerIndex].field[slot]
    IN  IF c # NoCard
        THEN [G EXCEPT !.players[playerIndex].trash = Append(@, c)]
        ELSE G

sendToTrash(G, playerIndex, slot) ==
    LET player == G.players[playerIndex]
    IN  IF slot \in Slots /\ player.field[slot] # NoCard
        THEN [G EXCEPT !.players[playerIndex].trash = Append(player.trash, player.field[slot]),
                       !.players[playerIndex].field[slot] = NoCard]
        ELSE G

\* card.skill.value || dflt
ValueOr(c, dflt) == IF Card(c).skill.value # 0 THEN Card(c).skill.value ELSE dflt

effect_draw(G, playerIndex, c, sourceSlot) ==
    drawCards(G, playerIndex, ValueOr(c, 1))

\* a gain that is not clipped at maxReiki
effect_gainReiki_unclipped(G, playerIndex, c, sourceSlot) ==
    [G EXCEPT !.players[playerIndex].reiki = @ + ValueOr(c, 1)]

effect_gainReiki(G, playerIndex, c, sourceSlot) ==
    LET player == G.players[playerIndex]
    IN  [G EXCEPT !.players[playerIndex].reiki =
                      Min(player.maxReiki, player.reiki + ValueOr(c, 1))]

effect_destroyWeakestOpponentUnit(G, playerIndex, c, sourceSlot) ==
    LET opponentIndex == Other(playerIndex)
        opponent == G.players[opponentIndex]
        units == FieldEntries(opponent.field, LAMBDA s, x : IsUnit(x))
    IN  IF Len(units) > 0
        THEN sendToTrash(G, opponentIndex, WeakestSlot(G, opponent.field, units))
        ELSE G

effect_buffAllAllyUnits(G, playerIndex, c, sourceSlot) ==
    LET player == G.players[playerIndex]
        buffed == {player.field[s] : s \in {x \in Slots :
                        player.field[x] # NoCard /\ IsUnit(player.field[x])}}
    IN  [G EXCEPT !.bp = [x \in Cards |->
                            IF x \in buffed THEN G.bp[x] + ValueOr(c, DefaultBuffAll)
                            ELSE G.bp[x]]]

effect_buffSelf(G, playerIndex, c, sourceSlot) ==
    LET player == G.players[playerIndex]
        selfCard == IF sourceSlot \in Slots THEN player.field[sourceSlot] ELSE NoCard
    IN  IF selfCard # NoCard
        THEN [G EXCEPT !.bp[selfCard] = G.bp[selfCard] + ValueOr(c, DefaultBuffSelf)]
        ELSE G

\* card.skill.options?.target || 'strongest'
TargetType(c) == IF Card(c).skill.target # "" THEN Card(c).skill.target ELSE "strongest"

effect_restOpponentUnit(G, playerIndex, c, sourceSlot) ==
    LET opponent == G.players[Other(playerIndex)]
        units == FieldEntries(opponent.field, LAMBDA s, x : IsUnit(x) /\ ~G.rested[x])
        targetSlot == IF TargetType(c) = "strongest"
                      THEN StrongestSlot(G, opponent.field, units)
                      ELSE WeakestSlot(G, opponent.field, units)
    IN  IF Len(units) > 0
        THEN [G EXCEPT !.rested[opponent.field[targetSlot]] = TRUE]
        ELSE G

effect_returnUnitToHand_toInvoker(G, playerIndex, c, sourceSlot) ==
    LET opponentIndex == Other(playerIndex)
        opponent == G.players[opponentIndex]
        units == FieldEntries(opponent.field, LAMBDA s, x : IsUnit(x))
        targetSlot == IF TargetType(c) = "strongest"
                      THEN StrongestSlot(G, opponent.field, units)
                      ELSE WeakestSlot(G, opponent.field, units)
    IN  IF Len(units) > 0
        THEN [G EXCEPT !.players[opponentIndex].field[targetSlot] = NoCard,
                       !.players[playerIndex].hand =
                            Append(G.players[playerIndex].hand,
                                   opponent.field[targetSlot])]
        ELSE G

effect_returnUnitToHand(G, playerIndex, c, sourceSlot) ==
    LET opponentIndex == Other(playerIndex)
        opponent == G.players[opponentIndex]
        units == FieldEntries(opponent.field, LAMBDA s, x : IsUnit(x))
        targetSlot == IF TargetType(c) = "strongest"
                      THEN StrongestSlot(G, opponent.field, units)
                      ELSE WeakestSlot(G, opponent.field, units)
    IN  IF Len(units) > 0
        THEN [G EXCEPT !.players[opponentIndex].field[targetSlot] = NoCard,
                       !.players[opponentIndex].hand =
                            Append(opponent.hand, opponent.field[targetSlot])]
        ELSE G

\* Object.keys(player.field).find(slot => !player.field[slot] && ok(slot)),
\* "" when there is none
FirstEmptySlot(field, Ok(_)) ==
    LET free == SelectSeq(SlotOrder, LAMBDA s : field[s] = NoCard /\ Ok(s))
    IN  IF Len(free) > 0 THEN free[1] ELSE ""

effect_searchAndPlay(G, playerIndex, c, sourceSlot) ==
    LET player == G.players[playerIndex]
        cardNameToFind == Card(c).skill.cardName
        cardIndex == FindIndex(player.mainDeck, LAMBDA x : Card(x).name = cardNameToFind)
        foundCard == player.mainDeck[cardIndex]
        emptySlot == FirstEmptySlot(player.field, IsRearguard)
        G1 == [G EXCEPT !.players[playerIndex].mainDeck = RemoveAt(player.mainDeck, cardIndex)]
    IN  IF cardNameToFind = "" \/ cardIndex = 0 THEN G
        ELSE IF emptySlot # ""
             THEN [G1 EXCEPT !.players[playerIndex].field[emptySlot] = foundCard]
             ELSE [G1 EXCEPT !.players[playerIndex].hand = Append(player.hand, foundCard)]

effect_reviveFromTrash(G, playerIndex, c, sourceSlot) ==
    LET player == G.players[playerIndex]
        opts == Card(c).skill
        byType == SelectSeq(player.trash, IsUnit)
        byCost == IF opts.maxCost # 0
                  THEN SelectSeq(byType, LAMBDA x : Card(x).cost <= opts.maxCost)
                  ELSE byType
        candidates == IF opts.tribe # ""
                      THEN SelectSeq(byCost, LAMBDA x : Card(x).tribe = opts.tribe)
                      ELSE byCost
        \* both branches of the target option sort by descending bp
        cardToRevive == StableSort(candidates, LAMBDA a, b : G.bp[a] > G.bp[b])[1]
        emptySlot == FirstEmptySlot(player.field, LAMBDA s : IsVanguard(s) \/ IsRearguard(s))
        G1 == [G EXCEPT !.players[playerIndex].trash =
                            SelectSeq(player.trash, LAMBDA x : x # cardToRevive)]
    IN  IF Len(player.trash) = 0 \/ Len(candidates) = 0 THEN G
        ELSE IF emptySlot # ""
             THEN [G1 EXCEPT !.players[playerIndex].field[emptySlot] = cardToRevive]
             ELSE [G1 EXCEPT !.players[playerIndex].hand = Append(player.hand, cardToRevive)]

effect_discardAndDraw(G, playerIndex, c, sourceSlot) ==
    LET player == G.players[playerIndex]
        discardCount == Min(Len(player.hand), ValueOr(c, 1))
        hand == IF ~isHumanTurn
                THEN StableSort(player.hand, LAMBDA a, b : G.bp[a] < G.bp[b])
                ELSE player.hand
        G1 == [G EXCEPT !.players[playerIndex].hand = SubSeq(hand, discardCount + 1, Len(hand)),
                        !.players[playerIndex].trash =
                            player.trash \o SubSeq(hand, 1, discardCount)]
    IN  drawCards(G1, playerIndex, discardCount)

\* the keys of EffectRegistry.effects
RegisteredEffects ==
    {"draw", "gainReiki", "destroyWeakestOpponentUnit", "buffAllAllyUnits", "buffSelf",
     "restOpponentUnit", "returnUnitToHand", "searchAndPlay", "reviveFromTrash",
     "discardAndDraw"}

\* getEffect(actionName) applied to (playerIndex, card, sourceSlot)
ApplyEffect(action, G, playerIndex, c, sourceSlot) ==
    CASE action = "draw" -> effect_draw(G, playerIndex, c, sourceSlot)
      [] action = "gainReiki" -> effect_gainReiki(G, playerIndex, c, sourceSlot)
      [] action = "destroyWeakestOpponentUnit" ->
            effect_destroyWeakestOpponentUnit(G, playerIndex, c, sourceSlot)
      [] action = "buffAllAllyUnits" -> effect_buffAllAllyUnits(G, playerIndex, c, sourceSlot)
      [] action = "buffSelf" -> effect_buffSelf(G, playerIndex, c, sourceSlot)
      [] action = "restOpponentUnit" -> effect_restOpponentUnit(G, playerIndex, c, sourceSlot)
      [] action = "returnUnitToHand" -> effect_returnUnitToHand(G, playerIndex, c, sourceSlot)
      [] action = "searchAndPlay" -> effect_searchAndPlay(G, playerIndex, c, sourceSlot)
      [] action = "reviveFromTrash" -> effect_reviveFromTrash(G, playerIndex, c, sourceSlot)
      [] action = "discardAndDraw" -> effect_discardAndDraw(G, playerIndex, c, sourceSlot)
      [] OTHER -> G

\* a dispatch that does not look the action up in the registry
Dispatches_anyAction(c, triggerType) ==
    /\ HasSkill(c)
    /\ Card(c).skill.trigger = triggerType

\* whether triggerEffect dispatches the card's skill for this trigger
Dispatches(c, triggerType) ==
    /\ HasSkill(c)
    /\ Card(c).skill.trigger = triggerType
    /\ Card(c).skill.action \in RegisteredEffects

\* triggerEffect(playerIndex, card, sourceSlot, triggerType)
triggerEffect(G, playerIndex, c, sourceSlot, triggerType) ==
    IF Dispatches(c, triggerType)
    THEN ApplyEffect(Card(c).skill.action, G, playerIndex, c, sourceSlot)
    ELSE G

(***************************************************************************)
(* Action Router: playCard, initiateAttack and what they call.             *)
(* An outcome is the G the call leaves, with what the call did.            *)
(***************************************************************************)
\* checkWinner(): index 0 is examined first, index 1 last
\* a win check that is content with one conquered base
checkWinner_oneBase(G) ==
    LET conquered(index) ==
            Cardinality({b \in 1..NUM_BASES :
                            G.players[Other(index)].bases[b].owner = index})
        G0 == IF conquered(0) >= 1 THEN [G EXCEPT !.winner = 0] ELSE G
    IN  IF conquered(1) >= 1 THEN [G0 EXCEPT !.winner = 1] ELSE G0

checkWinner(G) ==
    LET conquered(index) ==
            Cardinality({b \in 1..NUM_BASES :
                            G.players[Other(index)].bases[b].owner = index})
        G0 == IF conquered(0) >= 2 THEN [G EXCEPT !.winner = 0] ELSE G
    IN  IF conquered(1) >= 2 THEN [G0 EXCEPT !.winner = 1] ELSE G0

\* resolveBattle(attacker, defender) on the two powers; NoDefender: no defender
NoDefender == -1

\* a comparison that gives ties to the attacker
resolveBattle_tieToAttacker(attackerBp, defenderBp) ==
    IF defenderBp = NoDefender THEN "attacker"
    ELSE IF attackerBp >= defenderBp THEN "attacker"
    ELSE "defender"

resolveBattle(attackerBp, defenderBp) ==
    IF defenderBp = NoDefender THEN "attacker"
    ELSE IF attackerBp > defenderBp THEN "attacker"
    ELSE IF defenderBp > attackerBp THEN "defender"
    ELSE "draw"

\* the tail of playCard once the card has left the hand and onPlay has been
\* triggered: an event card is pushed onto the trash
finishPlay(G, playerIndex, c) ==
    [G |-> IF Card(c).type = CARD_TYPES.EVENT
           THEN [G EXCEPT !.players[playerIndex].trash = Append(@, c)]
           ELSE G,
     accepted |-> TRUE,
     reason |-> IF Card(c).type = CARD_TYPES.EVENT THEN "event" ELSE "field",
     dispatched |-> IF Dispatches(c, "onPlay") THEN 1 ELSE 0]

\* a rejection for an occupied slot that has already taken the cost
rejectPlay_debitFirst(G, playerIndex, c, why) ==
    [G |-> IF why = "occupied"
           THEN [G EXCEPT !.players[playerIndex].reiki = @ - Card(c).cost]
           ELSE G,
     accepted |-> FALSE, reason |-> why, dispatched |-> 0]

\* a return of playCard before anything was changed
rejectPlay(G, playerIndex, c, why) ==
    [G |-> G, accepted |-> FALSE, reason |-> why, dispatched |-> 0]

\* the card leaves the hand without the cost being taken
payAndTake_noDebit(G, playerIndex, cardIndex) ==
    [G EXCEPT !.players[playerIndex].hand = RemoveAt(@, cardIndex)]

\* player.reiki -= card.cost; player.hand.splice(cardIndex, 1)
payAndTake(G, playerIndex, cardIndex) ==
    LET player == G.players[playerIndex]
    IN  [G EXCEPT !.players[playerIndex].reiki =
                      player.reiki - Card(player.hand[cardIndex]).cost,
                  !.players[playerIndex].hand = RemoveAt(player.hand, cardIndex)]

\* playCard(playerIndex, cardUUID, targetSlot); targetSlot "" is null/undefined
playCard(G, playerIndex, cardUUID, targetSlot) ==
    LET player == G.players[playerIndex]
        cardIndex == FindIndex(player.hand, LAMBDA x : x = cardUUID)
        c == IF cardIndex = 0 THEN NoCard ELSE player.hand[cardIndex]
        isEvent == Card(c).type = CARD_TYPES.EVENT
        \* the card leaves the hand: an event stays in flight, another card is
        \* placed in targetSlot
        moved(GG) == IF isEvent THEN GG
                     ELSE [GG EXCEPT !.players[playerIndex].field[targetSlot] = c]
    IN  IF cardIndex = 0 THEN rejectPlay(G, playerIndex, c, "notInHand")
        ELSE IF player.reiki < Card(c).cost THEN rejectPlay(G, playerIndex, c, "cost")
        ELSE IF ~isEvent /\ targetSlot = "" THEN rejectPlay(G, playerIndex, c, "noSlot")
        ELSE IF ~isEvent /\ player.field[targetSlot] # NoCard
        THEN rejectPlay(G, playerIndex, c, "occupied")
        ELSE finishPlay(triggerEffect(moved(payAndTake(G, playerIndex, cardIndex)),
                                      playerIndex, c,
                                      IF isEvent THEN "" ELSE targetSlot, "onPlay"),
                        playerIndex, c)

BaseTargets == {"base0", "base1", "base2"}

\* targetIdentifier.startsWith('base')
IsBaseTarget(t) == t \in BaseTargets

\* parseInt(targetIdentifier.replace('base', '')) as an index into bases (1-based
\* here); 0 when it names no element of bases
BaseIndex(t) ==
    CASE t = "base0" -> 1 [] t = "base1" -> 2 [] t = "base2" -> 3 [] OTHER -> 0

\* a base branch that captures the base at the first hit
attackBase_captureOnHit(G, attackerIndex, baseIndex) ==
    LET defenderIndex == Other(attackerIndex)
        base == G.players[defenderIndex].bases[baseIndex]
        n == Len(base.gauges)
    IN  checkWinner([G EXCEPT
            !.players[defenderIndex].trash =
                IF n > 0 THEN Append(@, base.gauges[n]) ELSE @,
            !.players[defenderIndex].bases[baseIndex].gauges =
                IF n > 0 THEN SubSeq(base.gauges, 1, n - 1) ELSE @,
            !.players[defenderIndex].bases[baseIndex].owner = attackerIndex])

\* a base branch that drops the gauge card instead of trashing it
attackBase_gaugeDropped(G, attackerIndex, baseIndex) ==
    LET defenderIndex == Other(attackerIndex)
        base == G.players[defenderIndex].bases[baseIndex]
        n == Len(base.gauges)
    IN  IF n > 0
        THEN LET G1 == [G EXCEPT !.players[defenderIndex].bases[baseIndex].gauges =
                                     SubSeq(base.gauges, 1, n - 1)]
             IN  IF n = 1 /\ base.owner # attackerIndex
                 THEN checkWinner([G1 EXCEPT
                          !.players[defenderIndex].bases[baseIndex].owner = attackerIndex])
                 ELSE G1
        ELSE G

\* the base branch of an attacker win: one gauge to the trash, capture, win check
attackBase(G, attackerIndex, baseIndex) ==
    LET defenderIndex == Other(attackerIndex)
        base == G.players[defenderIndex].bases[baseIndex]
        n == Len(base.gauges)
        G1 == IF n > 0
              THEN [G EXCEPT !.players[defenderIndex].trash =
                                  Append(G.players[defenderIndex].trash, base.gauges[n]),
                             !.players[defenderIndex].bases[baseIndex].gauges =
                                  SubSeq(base.gauges, 1, n - 1)]
              ELSE G
        left == Len(G1.players[defenderIndex].bases[baseIndex].gauges)
    IN  IF left = 0 /\ base.owner # attackerIndex
        THEN checkWinner([G1 EXCEPT !.players[defenderIndex].bases[baseIndex].owner =
                                        attackerIndex])
        ELSE G1

\* initiateAttack from the reading of defenderCard on, G being the state the
\* onAttack trigger left
resolveAttack(G, attackerIndex, attackerSlot, targetIdentifier, attackerCard) ==
    LET defenderIndex == Other(attackerIndex)
        defenderCard == IF targetIdentifier \in Slots
                        THEN G.players[defenderIndex].field[targetIdentifier] ELSE NoCard
        G2 == [G EXCEPT !.rested[attackerCard] = TRUE]
        battleResult == resolveBattle(G.bp[attackerCard],
                                      IF defenderCard = NoCard THEN NoDefender
                                      ELSE G.bp[defenderCard])
        baseIndex == BaseIndex(targetIdentifier)
        thrown == battleResult = "attacker" /\ defenderCard = NoCard /\ baseIndex = 0
    IN  [G |-> IF battleResult = "attacker"
               THEN IF defenderCard # NoCard
                    THEN sendToTrash(G2, defenderIndex, targetIdentifier)
                    ELSE IF baseIndex = 0 THEN G2
                    ELSE attackBase(G2, attackerIndex, baseIndex)
               ELSE IF battleResult = "defender"
               THEN sendToTrash(G2, attackerIndex, attackerSlot)
               ELSE sendToTrash(sendToTrash(G2, attackerIndex, attackerSlot),
                                defenderIndex, targetIdentifier),
         accepted |-> TRUE, reason |-> battleResult,
         dispatched |-> IF Dispatches(attackerCard, "onAttack") THEN 1 ELSE 0,
         thrown |-> thrown, card |-> attackerCard, defender |-> defenderCard]

\* an attack that resolves combat before its onAttack skill is applied
initiateAttack_resolveFirst(G, attackerIndex, attackerSlot, targetIdentifier) ==
    LET attackerCard == IF attackerSlot \in Slots
                        THEN G.players[attackerIndex].field[attackerSlot] ELSE NoCard
        out == resolveAttack(G, attackerIndex, attackerSlot, targetIdentifier,
                             attackerCard)
    IN  IF attackerCard = NoCard \/ G.rested[attackerCard]
        THEN [G |-> G, accepted |-> FALSE,
              reason |-> IF attackerCard = NoCard THEN "noAttacker" ELSE "rested",
              dispatched |-> 0, thrown |-> FALSE, card |-> attackerCard,
              defender |-> NoCard]
        ELSE [out EXCEPT !.G = triggerEffect(out.G, attackerIndex, attackerCard,
                                             attackerSlot, "onAttack")]

\* an attack that does not test whether the attacker is rested
initiateAttack_ignoresRested(G, attackerIndex, attackerSlot, targetIdentifier) ==
    LET attackerCard == IF attackerSlot \in Slots
                        THEN G.players[attackerIndex].field[attackerSlot] ELSE NoCard
    IN  IF attackerCard = NoCard
        THEN [G |-> G, accepted |-> FALSE, reason |-> "noAttacker",
              dispatched |-> 0, thrown |-> FALSE, card |-> attackerCard,
              defender |-> NoCard]
        ELSE resolveAttack(triggerEffect(G, attackerIndex, attackerCard, attackerSlot,
                                         "onAttack"),
                           attackerIndex, attackerSlot, targetIdentifier, attackerCard)

\* initiateAttack(attackerIndex, attackerSlot, targetIdentifier);
\* attackerSlot "" / targetIdentifier "" are null.  thrown: the call ended in a
\* TypeError (base is undefined) after the attacker was rested.
initiateAttack(G, attackerIndex, attackerSlot, targetIdentifier) ==
    LET attackerCard == IF attackerSlot \in Slots
                        THEN G.players[attackerIndex].field[attackerSlot] ELSE NoCard
    IN  IF attackerCard = NoCard \/ G.rested[attackerCard]
        THEN [G |-> G, accepted |-> FALSE,
              reason |-> IF attackerCard = NoCard THEN "noAttacker" ELSE "rested",
              dispatched |-> 0, thrown |-> FALSE, card |-> attackerCard,
              defender |-> NoCard]
        ELSE resolveAttack(triggerEffect(G, attackerIndex, attackerCard, attackerSlot,
                                         "onAttack"),
                           attackerIndex, attackerSlot, targetIdentifier, attackerCard)

(***************************************************************************)
(* AIAgent: the automated driver's decisions.                              *)
(***************************************************************************)
\* the score evaluateCards gives a card (the catalog gives a value to every
\* draw and buffAllAllyUnits skill)
CardScore(G, c) ==
    (IF Card(c).type = CARD_TYPES.UNIT THEN G.bp[c] ELSE 0)
    + (IF HasSkill(c) /\ Card(c).skill.action = "draw" THEN 1500 * Card(c).skill.value ELSE 0)
    + (IF HasSkill(c) /\ Card(c).skill.action = "destroyWeakestOpponentUnit" THEN 2000 ELSE 0)
    + (IF HasSkill(c) /\ Card(c).skill.action = "buffAllAllyUnits"
       THEN 500 * Card(c).skill.value ELSE 0)

\* evaluateCards(cards): the cards by descending score
evaluateCards(G, cards) ==
    StableSort(cards, LAMBDA a, b : CardScore(G, a) > CardScore(G, b))

\* findBestSlotFor(player, card), "" for null
findBestSlotFor(player, c) ==
    IF Card(c).type = CARD_TYPES.UNIT
    THEN FirstEmptySlot(player.field, LAMBDA s : IsVanguard(s) \/ IsRearguard(s))
    ELSE IF Card(c).type = CARD_TYPES.SUPPORT /\ player.field["support"] = NoCard
    THEN "support"
    ELSE ""

\* Array.prototype.reverse
Reverse(s) == [i \in 1..Len(s) |-> s[Len(s) + 1 - i]]

\* findBestAttackTarget(attackerCard, opponent) for the active seat, "" for null
findBestAttackTarget(G, attackerCard, opponentIndex, activeIndex) ==
    LET opponent == G.players[opponentIndex]
        occupied == FieldEntries(opponent.field, LAMBDA s, x : TRUE)
        opponentCards == StableSort(occupied,
                            LAMBDA a, b : G.bp[opponent.field[a]] < G.bp[opponent.field[b]])
        bpAt(i) == G.bp[opponent.field[opponentCards[i]]]
        defeatable == {i \in 1..Len(opponentCards) : G.bp[attackerCard] > bpAt(i)}
        \* the first card, in ascending order, of the highest defeatable power
        best == CHOOSE i \in defeatable :
                    /\ \A j \in defeatable : bpAt(j) <= bpAt(i)
                    /\ \A j \in defeatable : bpAt(j) = bpAt(i) => i <= j
        reversed == Reverse(opponentCards)
        equalIdx == FindIndex(reversed, LAMBDA s : G.bp[opponent.field[s]] = G.bp[attackerCard])
        baseToAttack == FindIndex(opponent.bases, LAMBDA b : b.owner # activeIndex)
    IN  IF defeatable # {} THEN opponentCards[best]
        ELSE IF equalIdx # 0 THEN reversed[equalIdx]
        ELSE IF baseToAttack # 0
        THEN (CASE baseToAttack = 1 -> "base0" [] baseToAttack = 2 -> "base1"
                [] OTHER -> "base2")
        ELSE IF Len(reversed) > 0 THEN reversed[1]
        ELSE ""

\* the attackers array executeBattlePhase builds: <<slot, card>> pairs of the
\* un-rested cards in vanguard and rearguard slots, by descending power
BattleAttackers(G, playerIndex) ==
    LET field == G.players[playerIndex].field
        slotsOf == FieldEntries(field,
                      LAMBDA s, x : ~G.rested[x] /\ (IsVanguard(s) \/ IsRearguard(s)))
        sorted == StableSort(slotsOf, LAMBDA a, b : G.bp[field[a]] > G.bp[field[b]])
    IN  [i \in 1..Len(sorted) |-> <<sorted[i], field[sorted[i]]>>]

(***************************************************************************)
(* Turn/Phase state machine: runGameLoop and executeTurn, cut at their     *)
(* suspension points and at the observer notifications between the         *)
(* automated steps.  pc names the point reached:                           *)
(*   loop        the while test of runGameLoop                             *)
(*   start       phase START set, before activePhase                       *)
(*   charge      before reikiChargePhase                                   *)
(*   draw        before drawPhase                                          *)
(*   main_wait   waitForPlayerAction pending in MAIN (human seat)          *)
(*   main_ai     inside the loop of executeMainPhase                       *)
(*   battle_wait waitForPlayerAction pending in BATTLE (human seat)        *)
(*   battle_ai   inside the loop of executeBattlePhase                     *)
(*   end         phase END set, before endTurnCleanup                      *)
(*   done        the terminal notification was shown                       *)
(*   aborted     an exception left executeTurn: runGameLoop's promise is   *)
(*               rejected and nothing runs any more                        *)
(***************************************************************************)
gameVars == <<players, bp, rested, winner, everBuffed>>

battleVars == <<battleIn, battleOut>>

\* the handler ended with ui.update(this.state)
Shown == snapshotDue' = FALSE

\* the handler changed the state after its last ui.update
NotShown == snapshotDue' = TRUE

\* the handler neither changed the state nor called ui.update
NoSnapshot == snapshotDue' = snapshotDue

\* playCard and initiateAttack call ui.update as their last statement: not
\* when they return at a guard, not when they throw
ShownBy(out, thrown) ==
    snapshotDue' = IF thrown THEN TRUE ELSE IF out.accepted THEN FALSE ELSE snapshotDue

SetG(G) ==
    /\ players' = G.players
    /\ bp' = G.bp
    /\ rested' = G.rested
    /\ winner' = G.winner
    /\ everBuffed' = everBuffed \cup {c \in Cards : G.bp[c] > bp[c]}

Step(kind) == [NoAction EXCEPT !.kind = kind, !.seat = activePlayerIndex]

\* JavaScript truthiness of state.winner: null and 0 are falsy
Truthy(w) == w # NoSeat /\ w # 0

uiVars == <<selectedCard, selectedCardType, selectedCardSlot>>

\* ui.unselectCard()
Unselect ==
    /\ selectedCard' = NoCard
    /\ selectedCardType' = ""
    /\ selectedCardSlot' = ""

\* a loop test that stops one turn early
loopContinues_stopsEarly(w, t) == w = NoSeat /\ t < MAX_TURNS

\* the test of runGameLoop's while
loopContinues(w, t) == w = NoSeat /\ t <= MAX_TURNS

\* runGameLoop: the while test, then either the head of executeTurn or the
\* terminal modal
RunGameLoop ==
    /\ pc = "loop"
    /\ IF loopContinues(winner, turn)
       THEN /\ phase' = PHASES.START
            /\ pc' = "start"
            /\ modal' = modal
            /\ last' = Step("turn")
            /\ Shown
       ELSE /\ modal' = IF winner # NoSeat THEN "victory" ELSE "draw"
            /\ pc' = "done"
            /\ phase' = phase
            /\ last' = Step("terminal")
            /\ NoSnapshot
    /\ UNCHANGED <<gameVars, turn, activePlayerIndex, gameMode,
                   isProcessing, actionPromise, attackers, uiVars, charges, battleVars>>

\* activePhase(playerIndex)
ActivePhase ==
    /\ pc = "start"
    /\ LET field == players[activePlayerIndex].field
           onField == {field[s] : s \in {x \in Slots : field[x] # NoCard}}
       IN  rested' = [c \in Cards |-> IF c \in onField THEN FALSE ELSE rested[c]]
    /\ pc' = "charge"
    /\ last' = Step("active")
    /\ Shown
    /\ UNCHANGED <<players, bp, turn, activePlayerIndex, phase, winner, gameMode,
                   isProcessing, actionPromise, attackers, uiVars, modal, charges,
                   everBuffed, battleVars>>

\* reikiChargePhase(playerIndex) on the seat's record
\* a charge that keeps growing past the ceiling
reikiCharge_uncapped(player) ==
    [player EXCEPT !.maxReiki = player.maxReiki + 1, !.reiki = player.maxReiki + 1]

reikiCharge(player) ==
    LET maxReiki == IF player.maxReiki < MAX_REIKI THEN player.maxReiki + 1
                    ELSE player.maxReiki
    IN  [player EXCEPT !.maxReiki = maxReiki, !.reiki = maxReiki]

ReikiChargePhase ==
    /\ pc = "charge"
    /\ players' = [players EXCEPT ![activePlayerIndex] = reikiCharge(@)]
    /\ charges' = [charges EXCEPT ![activePlayerIndex] = @ + 1]
    /\ pc' = "draw"
    /\ last' = Step("charge")
    /\ Shown
    /\ UNCHANGED <<bp, rested, turn, activePlayerIndex, phase, winner, gameMode,
                   isProcessing, actionPromise, attackers, uiVars, modal, everBuffed,
                   battleVars>>

\* drawPhase(playerIndex)
\* a draw step without the exception of the opening seat-turn
drawPhase_alwaysDraws(G, playerIndex) == drawCards(G, playerIndex, 1)

drawPhase(G, playerIndex) ==
    IF turn = 1 /\ playerIndex = 0 THEN G ELSE drawCards(G, playerIndex, 1)

\* the draw step with the amount drawPhase asks for and the number of cards
\* that left the deck
DrawRecord(G) ==
    [Step("draw") EXCEPT
        !.asked = IF turn = 1 /\ activePlayerIndex = 0 THEN 0 ELSE 1,
        !.drawn = Len(players[activePlayerIndex].mainDeck)
                    - Len(G.players[activePlayerIndex].mainDeck)]

\* drawPhase, then phase MAIN and mainPhase up to its first suspension
DrawPhase ==
    /\ pc = "draw"
    /\ SetG(drawPhase(CurrentG, activePlayerIndex))
    /\ phase' = PHASES.MAIN
    /\ IF isHumanTurn
       THEN /\ isProcessing' = FALSE
            /\ actionPromise' = TRUE
            /\ pc' = "main_wait"
       ELSE /\ UNCHANGED <<isProcessing, actionPromise>>
            /\ pc' = "main_ai"
    /\ last' = DrawRecord(drawPhase(CurrentG, activePlayerIndex))
    /\ Shown
    /\ UNCHANGED <<turn, activePlayerIndex, gameMode, attackers, uiVars, modal, charges,
                   battleVars>>

\* endTurnCleanup(playerIndex): the field cards of both seats
\* a cleanup that resets the opponent's field only
endTurnCleanup_opponentFieldOnly(G, playerIndex) ==
    LET onField == {G.players[Other(playerIndex)].field[s] : s \in Slots} \ {NoCard}
    IN  [G EXCEPT !.bp = [c \in Cards |->
                            IF c \in onField THEN Card(c).originalBp ELSE G.bp[c]]]

endTurnCleanup(G, playerIndex) ==
    LET onField == {G.players[q].field[s] :
                        q \in Seats, s \in Slots} \ {NoCard}
    IN  [G EXCEPT !.bp = [c \in Cards |->
                            IF c \in onField THEN Card(c).originalBp ELSE G.bp[c]]]

\* a counter that grows at every change of seat
turnAfter_everySeat(t, nextIndex) == t + 1

\* if (this.state.activePlayerIndex === 0) this.state.turn++, after the switch
turnAfter(t, nextIndex) == IF nextIndex = 0 THEN t + 1 ELSE t

\* the END step of executeTurn: cleanup, win check, next seat, turn counter
EndStep ==
    /\ pc = "end"
    /\ SetG(checkWinner(endTurnCleanup(CurrentG, activePlayerIndex)))
    /\ activePlayerIndex' = Other(activePlayerIndex)
    /\ turn' = turnAfter(turn, Other(activePlayerIndex))
    /\ pc' = "loop"
    /\ last' = Step("end")
    /\ NotShown
    /\ UNCHANGED <<phase, gameMode, isProcessing, actionPromise, attackers, uiVars,
                   modal, charges, battleVars>>

(***************************************************************************)
(* The automated driver's steps (one call of playCard or initiateAttack    *)
(* per step; the pacing delays between them are the cuts).                 *)
(***************************************************************************)
PlayRecord(playerIndex, cardUUID, targetSlot, out) ==
    [NoAction EXCEPT !.kind = "play", !.seat = playerIndex, !.card = cardUUID,
                     !.slot = targetSlot, !.accepted = out.accepted,
                     !.reason = out.reason, !.dispatched = out.dispatched]

AttackRecord(attackerIndex, attackerSlot, targetIdentifier, out) ==
    [NoAction EXCEPT !.kind = "attack", !.seat = attackerIndex, !.card = out.card,
                     !.slot = attackerSlot, !.target = targetIdentifier,
                     !.defender = out.defender, !.accepted = out.accepted,
                     !.reason = out.reason, !.dispatched = out.dispatched,
                     !.thrown = out.thrown]

\* what executeTurn does once mainPhase has returned, for the automated seat:
\* the winner test, phase BATTLE and the head of executeBattlePhase
AiEnterBattle ==
    IF Truthy(winner)
    THEN /\ pc' = "loop"
         /\ UNCHANGED <<phase, attackers>>
         /\ NoSnapshot
    ELSE /\ phase' = PHASES.BATTLE
         /\ attackers' = BattleAttackers(CurrentG, activePlayerIndex)
         /\ pc' = "battle_ai"
         /\ Shown

\* the card and slot an iteration of executeMainPhase plays: <<card, slot>>,
\* <<NoCard, "">> when the loop ends
AiMainChoice(G, playerIndex) ==
    LET player == G.players[playerIndex]
        playableCards == SelectSeq(player.hand, LAMBDA x : Card(x).cost <= player.reiki)
        ranked == evaluateCards(G, playableCards)
        slotFor(c) == findBestSlotFor(player, c)
    IN  IF Len(playableCards) = 0 THEN <<NoCard, "">>
        ELSE IF Card(ranked[1]).type = CARD_TYPES.EVENT THEN <<ranked[1], "">>
        ELSE IF Card(ranked[1]).type \in {CARD_TYPES.UNIT, CARD_TYPES.SUPPORT}
                /\ slotFor(ranked[1]) # ""
        THEN <<ranked[1], slotFor(ranked[1])>>
        ELSE <<NoCard, "">>

AiPlays(playerIndex, c, targetSlot, out) ==
    /\ SetG(out.G)
    /\ last' = PlayRecord(playerIndex, c, targetSlot, out)
    /\ ShownBy(out, FALSE)
    /\ UNCHANGED <<pc, phase, attackers>>

AiMainWith(choice) ==
    IF choice[1] # NoCard
    THEN AiPlays(activePlayerIndex, choice[1], choice[2],
                 playCard(CurrentG, activePlayerIndex, choice[1], choice[2]))
    ELSE /\ AiEnterBattle
         /\ last' = Step("aiMainDone")
         /\ UNCHANGED gameVars

\* one iteration of the do-while loop of executeMainPhase
AiMainStep ==
    /\ pc = "main_ai"
    /\ AiMainWith(AiMainChoice(CurrentG, activePlayerIndex))
    /\ UNCHANGED <<turn, activePlayerIndex, gameMode, isProcessing, actionPromise,
                   uiVars, modal, charges, battleVars>>

\* a return from battlePhase that goes back to the loop without phase END
LeaveBattle_skipsEnd ==
    /\ pc' = "loop"
    /\ phase' = phase
    /\ NoSnapshot

\* what executeTurn does once battlePhase has returned: the winner test, then
\* phase END
LeaveBattle ==
    IF Truthy(winner)
    THEN /\ pc' = "loop"
         /\ phase' = phase
         /\ NoSnapshot
    ELSE /\ phase' = PHASES.END
         /\ pc' = "end"
         /\ Shown

AiAttacks(playerIndex, attackerSlot, target, out) ==
    /\ SetG(out.G)
    /\ last' = AttackRecord(playerIndex, attackerSlot, target, out)
    /\ attackers' = Tail(attackers)
    /\ pc' = IF out.thrown THEN "aborted" ELSE pc
    /\ phase' = phase
    /\ ShownBy(out, out.thrown)

AiBattleWith(playerIndex, attackerSlot, target) ==
    IF target = ""
    THEN /\ attackers' = Tail(attackers)
         /\ last' = Step("aiNoTarget")
         /\ UNCHANGED <<gameVars, pc, phase, snapshotDue>>
    ELSE AiAttacks(playerIndex, attackerSlot, target,
                   initiateAttack(CurrentG, playerIndex, attackerSlot, target))

\* one iteration of the for loop of executeBattlePhase
AiBattleStep ==
    /\ pc = "battle_ai"
    /\ IF winner # NoSeat \/ attackers = <<>>
       THEN /\ LeaveBattle
            /\ attackers' = <<>>
            /\ last' = Step("aiBattleDone")
            /\ UNCHANGED gameVars
       ELSE AiBattleWith(activePlayerIndex, attackers[1][1],
                         findBestAttackTarget(CurrentG, attackers[1][2],
                                              Other(activePlayerIndex), activePlayerIndex))
    /\ UNCHANGED <<turn, activePlayerIndex, gameMode, isProcessing, actionPromise,
                   uiVars, modal, charges, battleVars>>

(***************************************************************************)
(* The human driver: the click relay of UIManager.init calling             *)
(* handlePlayerAction, and the end-phase button calling endPhaseForPlayer. *)
(***************************************************************************)
\* the slots the human driver clicks on
ClickOrder == <<"vanguard1", "support", "vanguard2", "rearguard1", "rearguard2">>

ClickSlots == {ClickOrder[i] : i \in 1..Min(MaxClickSlots, Len(ClickOrder))}

\* the data objects the click listener builds
ClickData ==
    {[type |-> "hand", cardUUID |-> c, slot |-> "", owner |-> "player", baseIndex |-> 0] :
        c \in SeqSet(players[0].hand)}
    \cup {[type |-> "field", cardUUID |-> NoCard, slot |-> s, owner |-> o, baseIndex |-> 0] :
            s \in ClickSlots, o \in {"player", "opponent"}}
    \cup {[type |-> "base", cardUUID |-> NoCard, slot |-> "", owner |-> o, baseIndex |-> i] :
            o \in {"player", "opponent"}, i \in 0..(NUM_BASES - 1)}

\* `base${baseIndex}`
BaseId(i) == CASE i = 0 -> "base0" [] i = 1 -> "base1" [] OTHER -> "base2"

\* ui.selectCard(card, type, slot)
SelectCard(c, type, slot) ==
    IF selectedCard = c
    THEN Unselect
    ELSE /\ selectedCard' = c
         /\ selectedCardType' = type
         /\ selectedCardSlot' = slot

\* a click that only changes the selection
OnlySelect(c, type, slot) ==
    /\ SelectCard(c, type, slot)
    /\ last' = Step("select")
    /\ UNCHANGED <<gameVars, snapshotDue>>

HumanPlayed(slot, out) ==
    /\ SetG(out.G)
    /\ last' = PlayRecord(0, selectedCard, slot, out)
    /\ ShownBy(out, FALSE)
    /\ IF out.accepted THEN Unselect ELSE UNCHANGED uiVars

HumanPlay(slot) == HumanPlayed(slot, playCard(CurrentG, 0, selectedCard, slot))

HumanAttacked(target, out) ==
    /\ SetG(out.G)
    /\ last' = AttackRecord(0, selectedCardSlot, target, out)
    /\ ShownBy(out, out.thrown)
    /\ IF out.accepted /\ ~out.thrown THEN Unselect ELSE UNCHANGED uiVars

HumanAttack(target) ==
    HumanAttacked(target, initiateAttack(CurrentG, 0, selectedCardSlot, target))

\* a router that takes input at any moment
acceptsInput_always == TRUE

\* the negation of handlePlayerAction's early return
acceptsInput == isHumanTurn /\ ~isProcessing

\* handlePlayerAction(data)
HandlePlayerAction(data) ==
    /\ acceptsInput
    /\ LET cardOnField == IF data.slot \in Slots THEN players[0].field[data.slot]
                          ELSE NoCard
       IN  IF phase = PHASES.MAIN
           THEN IF data.type = "hand"
                THEN OnlySelect(data.cardUUID, "hand", "")
                ELSE IF data.type = "field" /\ selectedCard # NoCard
                        /\ selectedCardType = "hand"
                THEN HumanPlay(data.slot)
                ELSE UNCHANGED <<gameVars, uiVars, last, snapshotDue>>
           ELSE IF phase = PHASES.BATTLE
           THEN IF data.type = "field" /\ data.owner = "player"
                   /\ cardOnField # NoCard /\ ~rested[cardOnField]
                THEN OnlySelect(cardOnField, "field", data.slot)
                ELSE IF selectedCard # NoCard /\ selectedCardType = "field"
                THEN IF data.type \in {"field", "base"} /\ data.owner = "opponent"
                     THEN HumanAttack(IF data.type = "field" THEN data.slot
                                      ELSE BaseId(data.baseIndex))
                     ELSE UNCHANGED <<gameVars, uiVars, last, snapshotDue>>
                ELSE UNCHANGED <<gameVars, uiVars, last, snapshotDue>>
           ELSE UNCHANGED <<gameVars, uiVars, last, snapshotDue>>
    /\ UNCHANGED <<turn, activePlayerIndex, phase, gameMode, isProcessing, actionPromise,
                   pc, attackers, modal, charges, battleVars>>

\* a click or a press of the end-phase button while the engine ignores input
IgnoredInput ==
    /\ ~(isHumanTurn /\ ~isProcessing /\ actionPromise)
    /\ UNCHANGED vars

\* an end-phase request that resolves the MAIN wait and the BATTLE wait at once
EndPhaseForPlayer_fallsThrough ==
    /\ isHumanTurn /\ ~isProcessing /\ actionPromise
    /\ LeaveBattle
    /\ isProcessing' = TRUE
    /\ actionPromise' = FALSE
    /\ last' = Step("endPhase")
    /\ UNCHANGED <<gameVars, turn, activePlayerIndex, gameMode,
                   attackers, uiVars, modal, charges, battleVars>>

\* endPhaseForPlayer(), with the continuation of executeTurn it resumes
EndPhaseForPlayer ==
    /\ isHumanTurn /\ ~isProcessing /\ actionPromise
    /\ IF pc = "main_wait" /\ ~Truthy(winner)
       THEN \* phase BATTLE, battlePhase, waitForPlayerAction again
            /\ phase' = PHASES.BATTLE
            /\ pc' = "battle_wait"
            /\ isProcessing' = FALSE
            /\ actionPromise' = TRUE
            /\ Shown
       ELSE IF pc = "main_wait"
       THEN /\ pc' = "loop"
            /\ phase' = phase
            /\ isProcessing' = TRUE
            /\ actionPromise' = FALSE
            /\ NoSnapshot
       ELSE /\ LeaveBattle
            /\ isProcessing' = TRUE
            /\ actionPromise' = FALSE
    /\ last' = Step("endPhase")
    /\ UNCHANGED <<gameVars, turn, activePlayerIndex, gameMode,
                   attackers, uiVars, modal, charges, battleVars>>

Next ==
    \/ RunGameLoop
    \/ ActivePhase
    \/ ReikiChargePhase
    \/ DrawPhase
    \/ AiMainStep
    \/ AiBattleStep
    \/ EndStep
    \/ \E data \in ClickData : HandlePlayerAction(data)
    \/ EndPhaseForPlayer
    \/ IgnoredInput

Spec == Init /\ [][Next]_vars


(***************************************************************************)
(* resolveBattle on its own: the two powers are drawn from bounded sets    *)
(* and the one action applies the function to them.                        *)
(***************************************************************************)
MaxBattleBp == 6

BattlePowers == 0..MaxBattleBp

InitBattle ==
    /\ InitGame
    /\ battleIn \in BattlePowers \X (BattlePowers \cup {NoDefender})
    /\ battleOut = "none"

ResolveBattleCall ==
    /\ battleOut = "none"
    /\ battleOut' = resolveBattle(battleIn[1], battleIn[2])
    /\ UNCHANGED <<gameVars, turn, activePlayerIndex, phase, gameMode, isProcessing,
                   actionPromise, pc, attackers, uiVars, modal, last, charges,
                   snapshotDue, battleIn>>

NextBattle == ResolveBattleCall

SpecBattle == InitBattle /\ [][NextBattle]_vars

(***************************************************************************)
(* Properties.                                                             *)
(***************************************************************************)
FieldCards == {players[q].field[s] : q \in Seats, s \in Slots} \ {NoCard}

\* every card a seat holds in its field, hand, trash or main deck
ZoneCards(q) ==
    {players[q].field[s] : s \in Slots} \cup SeqSet(players[q].hand)
        \cup SeqSet(players[q].trash) \cup SeqSet(players[q].mainDeck)

\* the START phase of a turn that is not the first one of the game
LaterStart == pc = "start" /\ ~(turn = 1 /\ activePlayerIndex = 0)

\* C1: when a seat's turn after the first enters START, every card on either
\* seat's field has bp equal to its originalBp, whatever was played, attacked
\* or buffed before.
C1_FieldPowerResetAtStart ==
    LaterStart => \A c \in FieldCards : bp[c] = Card(c).originalBp

\* a turn starts with a card on the field that a skill had buffed earlier
C1_Witness ==
    LaterStart /\ \E c \in FieldCards : c \in everBuffed

\* C2 (as stated): when a turn after the first enters START, every card of
\* either seat has bp equal to its originalBp in whichever zone it sits.
C2_AllZonesPowerResetAtStart ==
    LaterStart => \A q \in Seats : \A c \in ZoneCards(q) \ {NoCard} :
                      bp[c] = Card(c).originalBp

\* C3: after a seat's N-th reiki charge its maxReiki is min(N, MAX_REIKI) and,
\* right after the charge, its reiki equals its maxReiki; maxReiki changes in
\* no other way, so it never decreases.
C3_ReikiCharge ==
    /\ \A q \in Seats : players[q].maxReiki = Min(charges[q], MAX_REIKI)
    /\ last.kind = "charge" =>
           players[last.seat].reiki = players[last.seat].maxReiki

\* a charge made when the ceiling had already been reached
C3_Witness ==
    last.kind = "charge" /\ charges[last.seat] > MAX_REIKI

\* C4: in every reachable state, for each seat,
\* 0 <= reiki <= maxReiki <= MAX_REIKI.
C4_ReikiBounds ==
    \A q \in Seats :
        /\ 0 <= players[q].reiki
        /\ players[q].reiki <= players[q].maxReiki
        /\ players[q].maxReiki <= MAX_REIKI

\* a gainReiki card has just been played and its gain was clipped at maxReiki
C4_Witness ==
    /\ last.kind = "play" /\ last.accepted
    /\ Card(last.card).skill.action = "gainReiki"
    /\ players[last.seat].reiki = players[last.seat].maxReiki
    /\ Card(last.card).skill.value > Card(last.card).cost

\* C5: resolveBattle returns attacker when there is no defender, attacker when
\* the attacker's power is greater, defender when the defender's is greater,
\* draw when they are equal: exactly one of the three for every pair of
\* non-negative powers.
C5_ResolveBattle ==
    battleOut # "none" =>
        LET x == battleIn[1]
            y == battleIn[2]
        IN  /\ battleOut \in {"attacker", "defender", "draw"}
            /\ battleOut = "attacker" <=> (y = NoDefender \/ x > y)
            /\ battleOut = "defender" <=> (y # NoDefender /\ y > x)
            /\ battleOut = "draw" <=> (y # NoDefender /\ x = y)

\* the function has been applied to two equal, positive powers
C5_Witness ==
    battleOut # "none" /\ battleIn[1] = battleIn[2] /\ battleIn[1] > 0

\* the step that has just been taken was an attacker win of seat a against
\* base b (1-based) of the other seat
BaseHit(a, b) ==
    /\ last'.kind = "attack" /\ last'.accepted /\ last'.reason = "attacker"
    /\ last'.seat = a /\ last'.defender = NoCard /\ last'.target = BaseId(b - 1)

BaseOwnerMatchesGauge ==
    \A d \in Seats : \A b \in 1..NUM_BASES :
        players[d].bases[b].owner # NoSeat <=> players[d].bases[b].gauges = <<>>

BaseOwnerStep ==
    \A d \in Seats : \A b \in 1..NUM_BASES :
        players'[d].bases[b].owner # players[d].bases[b].owner =>
            /\ players[d].bases[b].owner = NoSeat
            /\ players'[d].bases[b].owner = Other(d)
            /\ BaseHit(Other(d), b)
            /\ Len(players[d].bases[b].gauges) = 1
            /\ players'[d].bases[b].gauges = <<>>
            /\ winner' = checkWinner([players |-> players', bp |-> bp', rested |-> rested',
                                      winner |-> winner]).winner

\* C6: a base's owner changes at most once, only from none to the seat that
\* attacks it, only at the attack that empties its gauge stack, and the win
\* check has run by the end of that attack; in every state a base has an
\* owner exactly when its gauge stack is empty.
C6_BaseOwner == []BaseOwnerMatchesGauge /\ [][BaseOwnerStep]_vars

\* an attack has just captured the base it was declared against
C6_Witness ==
    /\ last.kind = "attack" /\ last.reason = "attacker" /\ IsBaseTarget(last.target)
    /\ players[Other(last.seat)].bases[BaseIndex(last.target)].owner = last.seat
    /\ Len(players[Other(last.seat)].trash) > 0

\* how a step treats the gauge stack of base b of seat d; everyHitPops: a hit
\* on an empty stack is required to pop a card as well
GaugeStep(d, b, everyHitPops) ==
    LET g == players[d].bases[b].gauges
        after == players'[d].bases[b].gauges
    IN  IF BaseHit(Other(d), b)
        THEN IF Len(g) > 0
             THEN /\ Len(after) = Len(g) - 1
                  /\ after = SubSeq(g, 1, Len(g) - 1)
                  /\ Len(players'[d].trash) > Len(players[d].trash)
                  /\ players'[d].trash[Len(players'[d].trash)] = g[Len(g)]
             ELSE ~everyHitPops /\ after = g
        ELSE after = g

\* C7 (as stated): every attacker win against a base takes exactly one card
\* off that base's gauge stack and puts it on the defending seat's trash, and
\* nothing else changes a gauge stack.
C7_EveryBaseHitPopsOne ==
    [][\A d \in Seats : \A b \in 1..NUM_BASES : GaugeStep(d, b, TRUE)]_vars

\* C7 (amended): an attacker win against a base whose gauge stack is not
\* empty takes exactly one card off it and puts it on the defending seat's
\* trash; against an empty stack it leaves the stack empty and moves no gauge
\* card; nothing else changes a gauge stack.
C7_BaseHitPopsOneIfAny ==
    [][\A d \in Seats : \A b \in 1..NUM_BASES : GaugeStep(d, b, FALSE)]_vars

\* an attack has just moved a gauge card of the attacked base to the trash
C7_Witness ==
    /\ last.kind = "attack" /\ last.reason = "attacker" /\ IsBaseTarget(last.target)
    /\ LET d == Other(last.seat)
           base == players[d].bases[BaseIndex(last.target)]
       IN  /\ Len(base.gauges) = GAUGE_PER_BASE - 1
           /\ Len(players[d].trash) > 0
           /\ base.owner = NoSeat

\* the step that has just been taken was a playCard call; what it did to the
\* submitting seat.  netOfSkill: the reiki left is the debit followed by what
\* a gainReiki onPlay skill gave back
PlayStep(netOfSkill) ==
    last'.kind = "play" =>
        LET q == last'.seat
            c == last'.card
            s == last'.slot
            before == players[q]
            after == players'[q]
            isEvent == Card(c).type = CARD_TYPES.EVENT
            eligible == /\ c \in SeqSet(before.hand)
                        /\ Card(c).cost <= before.reiki
                        /\ isEvent \/ (s \in Slots /\ before.field[s] = NoCard)
            gains == netOfSkill /\ Dispatches(c, "onPlay")
                         /\ Card(c).skill.action = "gainReiki"
        IN  /\ eligible => last'.accepted
            /\ last'.accepted =>
                  /\ after.reiki =
                         IF gains
                         THEN Min(before.maxReiki,
                                  before.reiki - Card(c).cost + Card(c).skill.value)
                         ELSE before.reiki - Card(c).cost
                  /\ c \notin SeqSet(after.hand)
                  /\ isEvent => /\ Len(after.trash) > 0
                                /\ after.trash[Len(after.trash)] = c
                                /\ \A s2 \in Slots : after.field[s2] # c
                  /\ ~isEvent => /\ after.field[s] = c
                                 /\ \A s2 \in Slots \ {s} : after.field[s2] # c
                                 /\ c \notin SeqSet(after.trash)
                  /\ last'.dispatched = IF Dispatches(c, "onPlay") THEN 1 ELSE 0

\* C8 (as stated): a play of a card that is in the seat's hand, costs no more
\* than its reiki and (unless it is an event) targets an empty slot succeeds;
\* reiki goes down by exactly the cost, the card leaves the hand for exactly
\* that slot (an event: for the trash) and its onPlay skill is dispatched once.
C8_PlayDebitsExactlyCost == [][PlayStep(FALSE)]_vars

\* C8 (amended): as above, but the reiki left after the play is the old reiki
\* less the cost only when the card's onPlay skill is not gainReiki; a
\* gainReiki skill then adds its value, up to maxReiki.
C8_PlayDebitsThenSkill == [][PlayStep(TRUE)]_vars

\* a gainReiki card has just been played into a slot, at a net cost other
\* than its printed cost
C8_Witness ==
    /\ last.kind = "play" /\ last.accepted /\ last.dispatched = 1
    /\ last.slot \in Slots
    /\ players[last.seat].field[last.slot] = last.card
    /\ Card(last.card).skill.action = "gainReiki"

\* C9: a rejected playCard call (card not in hand, cost above reiki, no slot
\* for a non-event card, slot occupied) changes nothing of the game state and
\* dispatches no skill.
C9_RejectedPlayChangesNothing ==
    [][(last'.kind = "play" /\ ~last'.accepted) =>
          /\ UNCHANGED <<players, bp, rested, winner, turn, activePlayerIndex, phase>>
          /\ last'.dispatched = 0]_vars

\* a play has just been rejected because the slot was occupied
C9_Witness ==
    /\ last.kind = "play" /\ ~last.accepted /\ last.reason = "occupied"
    /\ players[last.seat].field[last.slot] # NoCard
    /\ last.card \in SeqSet(players[last.seat].hand)

\* slot.includes('vanguard') || slot.includes('rearguard') for a unit,
\* slot.includes('support') for a support
SlotFits(c, s) ==
    \/ Card(c).type = CARD_TYPES.UNIT /\ (IsVanguard(s) \/ IsRearguard(s))
    \/ Card(c).type = CARD_TYPES.SUPPORT /\ s = "support"

\* C10 (as stated): a non-event card is only ever played into a slot of its
\* own category: a unit into a vanguard or rearguard slot, a support into the
\* support slot.
C10_PlayedSlotFitsType ==
    (last.kind = "play" /\ last.accepted /\ Card(last.card).type # CARD_TYPES.EVENT)
        => SlotFits(last.card, last.slot)


\* the step that has just been taken was a call of initiateAttack
AttackStep == last'.kind = "attack"

\* the card in the attacker slot of the call, before the call
AttackerBefore ==
    IF last'.slot \in Slots THEN players[last'.seat].field[last'.slot] ELSE NoCard

\* the call was made with an attacker that may attack
AttackerReady == AttackerBefore # NoCard /\ ~rested[AttackerBefore]

\* C11: in an accepted attack the onAttack skill is applied first, then the
\* attacker is rested, then combat is resolved: the defender is the card the
\* target slot holds after the skill, the result is resolveBattle of the
\* powers after the skill, and the attacker ends rested.
C11_SkillThenRestThenCombat ==
    [][(AttackStep /\ last'.accepted) =>
          LET a == last'.seat
              c == AttackerBefore
              G1 == triggerEffect(CurrentG, a, c, last'.slot, "onAttack")
              d == IF last'.target \in Slots
                   THEN G1.players[Other(a)].field[last'.target] ELSE NoCard
          IN  /\ last'.card = c
              /\ last'.defender = d
              /\ last'.reason = resolveBattle(G1.bp[c], IF d = NoCard THEN NoDefender
                                                        ELSE G1.bp[d])
              /\ rested'[c]]_vars

\* a buffSelf attacker has just drawn against a defender that was stronger
\* than it before the skill
C11_Witness ==
    /\ last.kind = "attack" /\ last.accepted /\ last.reason = "draw"
    /\ last.defender # NoCard
    /\ Card(last.card).skill.action = "buffSelf"
    /\ Card(last.defender).originalBp > Card(last.card).originalBp

\* C12: an attack of an un-rested attacker without onAttack skill on an
\* occupied opposing slot: greater attacker power sends the defender to its
\* seat's trash and leaves the attacker in its slot, rested, power unchanged;
\* greater defender power sends the attacker to its seat's trash and leaves the
\* defender; equal powers send both to their own trash.
C12_PlainCombatOutcome ==
    [][(AttackStep /\ AttackerReady /\ last'.target \in Slots
          /\ ~Dispatches(AttackerBefore, "onAttack")
          /\ players[Other(last'.seat)].field[last'.target] # NoCard) =>
          LET a == last'.seat
              o == Other(a)
              c == AttackerBefore
              d == players[o].field[last'.target]
              attackerTrashed ==
                  /\ players'[a].field[last'.slot] = NoCard
                  /\ players'[a].trash = Append(players[a].trash, c)
              attackerStays ==
                  /\ players'[a].field[last'.slot] = c
                  /\ players'[a].trash = players[a].trash
              defenderTrashed ==
                  /\ players'[o].field[last'.target] = NoCard
                  /\ players'[o].trash = Append(players[o].trash, d)
              defenderStays ==
                  /\ players'[o].field[last'.target] = d
                  /\ players'[o].trash = players[o].trash
          IN  /\ last'.accepted /\ ~last'.thrown
              /\ rested'[c] /\ bp' = bp
              /\ bp[c] > bp[d] => attackerStays /\ defenderTrashed
              /\ bp[d] > bp[c] => attackerTrashed /\ defenderStays
              /\ bp[c] = bp[d] => attackerTrashed /\ defenderTrashed]_vars

\* an attacker without skill has just lost against a stronger defender
C12_Witness ==
    /\ last.kind = "attack" /\ last.accepted /\ last.reason = "defender"
    /\ ~Dispatches(last.card, "onAttack")
    /\ players[last.seat].field[last.slot] = NoCard
    /\ players[Other(last.seat)].field[last.target] = last.defender
    /\ Len(players[last.seat].trash) > 0

\* C13: a call of initiateAttack whose attacker slot is empty or whose attacker
\* is rested does nothing: no skill is dispatched, no card is rested or
\* trashed, no base changes, nothing is thrown.
C13_UnreadyAttackIsNoOp ==
    [][(AttackStep /\ ~AttackerReady) =>
          /\ ~last'.accepted /\ ~last'.thrown /\ last'.dispatched = 0
          /\ UNCHANGED <<players, bp, rested, winner, turn, activePlayerIndex, phase>>]_vars

\* an attack has just been refused because its attacker was rested
C13_Witness ==
    /\ last.kind = "attack" /\ ~last.accepted /\ last.reason = "rested"
    /\ last.card # NoCard /\ rested[last.card]
    /\ players[last.seat].field[last.slot] = last.card

\* the target of the call names neither an occupied opposing slot nor a base
InvalidTarget ==
    \/ last'.target \in Slots /\ players[Other(last'.seat)].field[last'.target] = NoCard
    \/ last'.target \notin Slots /\ BaseIndex(last'.target) = 0

\* C14 (as stated): a call of initiateAttack with an un-rested attacker and a
\* target that is neither an occupied opposing slot nor an existing base does
\* nothing: the attacker is not rested, no skill is dispatched, the state is
\* unchanged and nothing is thrown.
C14_InvalidTargetIsNoOp ==
    [][(AttackStep /\ AttackerReady /\ InvalidTarget) =>
          /\ ~last'.thrown /\ last'.dispatched = 0
          /\ UNCHANGED <<players, bp, rested, winner>>]_vars


\* the number of the other seat's bases that seat q owns, in the seats ps
Conquered(ps, q) ==
    Cardinality({b \in 1..NUM_BASES : ps[Other(q)].bases[b].owner = q})

WinnerOwnsTwo ==
    /\ winner # NoSeat => Conquered(players, winner) >= 2
    /\ \A q \in Seats : Conquered(players, q) >= 2 => winner = q

WinnerStep ==
    winner' # winner =>
        /\ winner = NoSeat /\ winner' \in Seats
        /\ last'.kind = "attack" /\ last'.seat = winner' /\ IsBaseTarget(last'.target)
        /\ Conquered(players, winner') = 1
        /\ Conquered(players', winner') = 2

\* C15: winner is only ever a seat that owns at least 2 of the other seat's
\* bases; it is set in the attack that is that seat's second capture, from
\* none, and never changes afterwards; the two seats never both own 2 bases of
\* the other.
C15_WinnerIsFirstToTwo == []WinnerOwnsTwo /\ [][WinnerStep]_vars

\* a seat has just won by the attack that was its second capture
C15_Witness ==
    /\ last.kind = "attack" /\ winner = last.seat
    /\ Conquered(players, winner) = 2
    /\ players[Other(winner)].bases[BaseIndex(last.target)].owner = winner


TerminalMatchesOutcome ==
    /\ modal = "victory" => winner # NoSeat
    /\ modal = "draw" => winner = NoSeat /\ turn > MAX_TURNS
    /\ modal # "none" <=> pc = "done"

LoopStep ==
    /\ last'.kind = "turn" => winner = NoSeat /\ turn <= MAX_TURNS /\ modal = "none"
    /\ modal' # modal => modal = "none" /\ last'.kind = "terminal"
    /\ pc # "done"

\* C16: a turn is started only while winner is none and turn <= MAX_TURNS; the
\* terminal notification is issued once, victory if winner is set, otherwise
\* draw, and draw only with turn > MAX_TURNS and no winner; after it nothing
\* is executed.
C16_LoopAndTerminal == []TerminalMatchesOutcome /\ [][LoopStep]_vars

\* the session has ended in a draw after the last allowed turn
C16_Witness ==
    modal = "draw" /\ turn = MAX_TURNS + 1 /\ pc = "done" /\ winner = NoSeat


\* a step of the engine or of the automated driver is ready
EngineReady == pc \in {"loop", "start", "charge", "draw", "main_ai", "battle_ai", "end"}

\* the engine is suspended in waitForPlayerAction, ready for an end-phase request
HumanWaitPending == pc \in {"main_wait", "battle_wait"} /\ actionPromise /\ ~isProcessing

\* C17 (as stated), in the form a finite run refutes: a session that always
\* reaches its terminal notification when every human wait is answered is, at
\* every moment before that notification, either about to take a step of its
\* own or suspended in a human wait that an end-phase request resumes; and it
\* starts at most 2 * MAX_TURNS seat-turns.
C17_NeverDeadBeforeTerminal ==
    /\ modal = "none" => EngineReady \/ HumanWaitPending
    /\ charges[0] + charges[1] <= 2 * MAX_TURNS

\* C18: the phase value changes only from START to MAIN, from MAIN to
\* BATTLE, from BATTLE to END and from END to START; START is entered only
\* as the first step of a seat-turn, from END right after the end step of the
\* previous seat-turn (or from the initial state), so within a seat-turn no
\* phase is skipped, revisited or entered twice.
C18_PhaseMovesForward ==
    [][ /\ phase' # phase =>
              \/ phase = PHASES.START /\ phase' = PHASES.MAIN
              \/ phase = PHASES.MAIN /\ phase' = PHASES.BATTLE
              \/ phase = PHASES.BATTLE /\ phase' = PHASES.END
              \/ phase = PHASES.END /\ phase' = PHASES.START
        /\ (last'.kind = "turn" /\ last' # last) =>
              /\ phase' = PHASES.START
              /\ \/ phase = PHASES.END /\ last.kind = "end"
                 \/ phase = PHASES.START /\ last.kind = "none"
        /\ (phase' = PHASES.START /\ phase # PHASES.START) => last'.kind = "turn"
      ]_vars

\* START has been re-entered from END for the second seat-turn
C18_Witness ==
    phase = PHASES.START /\ last.kind = "turn" /\ activePlayerIndex = 1 /\ turn = 1

\* C19: the active seat changes only in the end step that leaves END, to the
\* other seat, and every END to START transition follows such a change; the
\* session starts with seat 0 and turn 1; the turn counter grows by exactly 1
\* exactly when the seat passes from 1 to 0, and stays within 1..MAX_TURNS+1.
C19_SeatAndTurnStep ==
    /\ activePlayerIndex' # activePlayerIndex =>
          /\ phase = PHASES.END /\ pc = "end"
          /\ activePlayerIndex' = Other(activePlayerIndex)
    /\ pc = "end" /\ pc' # pc => activePlayerIndex' # activePlayerIndex
    /\ (phase = PHASES.END /\ phase' = PHASES.START) =>
          last.kind = "end" /\ last.seat = Other(activePlayerIndex)
    /\ turn' # turn =>
          turn' = turn + 1 /\ activePlayerIndex = 1 /\ activePlayerIndex' = 0
    /\ (activePlayerIndex = 1 /\ activePlayerIndex' = 0) => turn' = turn + 1

TurnInRange ==
    /\ turn \in 1..(MAX_TURNS + 1)
    /\ last.kind = "none" => turn = 1 /\ activePlayerIndex = 0

C19_SeatsAlternateTurnCounts == []TurnInRange /\ [][C19_SeatAndTurnStep]_vars

\* control has passed from seat 1 back to seat 0 and the counter has grown
C19_Witness ==
    turn = 2 /\ activePlayerIndex = 0 /\ last.kind = "end" /\ last.seat = 1

\* the un-rest step: first step of the seat-turn, all field cards of the
\* active seat are ready after it
UnrestStep ==
    /\ last.kind = "turn" /\ phase = PHASES.START /\ phase' = PHASES.START
    /\ \A s \in Slots : players[activePlayerIndex].field[s] # NoCard =>
            ~rested'[players[activePlayerIndex].field[s]]
    /\ players' = players

\* the resource charge step: right after the un-rest step, still in START
ChargeStep ==
    /\ last.kind = "active" /\ phase = PHASES.START /\ phase' = PHASES.START
    /\ players'[activePlayerIndex].hand = players[activePlayerIndex].hand
    /\ players'[activePlayerIndex].reiki = players'[activePlayerIndex].maxReiki
    /\ rested' = rested

\* the draw step: right after the charge, it ends START; one card from the top
\* of the deck, none in seat 0's turn 1 and none from an empty deck
DrawStep ==
    LET before == players[activePlayerIndex]
        after == players'[activePlayerIndex]
        n == Len(before.mainDeck)
    IN  /\ last.kind = "charge" /\ phase = PHASES.START /\ phase' = PHASES.MAIN
        /\ IF (turn = 1 /\ activePlayerIndex = 0) \/ n = 0
           THEN after.hand = before.hand /\ after.mainDeck = before.mainDeck
           ELSE /\ after.hand = Append(before.hand, before.mainDeck[n])
                /\ after.mainDeck = SubSeq(before.mainDeck, 1, n - 1)
        /\ players'[Other(activePlayerIndex)] = players[Other(activePlayerIndex)]

\* C20: between START and MAIN of every seat-turn the steps are un-rest, then
\* resource charge, then draw, and nothing else; the draw step gives the
\* active seat exactly the top card of its deck if there is one, except in
\* seat 0's turn 1 where no card is drawn; seat 1 draws in turn 1.
C20_StartSteps ==
    [][ /\ (phase = PHASES.START /\ last.kind = "turn") => UnrestStep
        /\ (phase = PHASES.START /\ last.kind = "active") => ChargeStep
        /\ (phase = PHASES.START /\ last.kind = "charge") => DrawStep
        /\ (phase = PHASES.START /\ phase' = PHASES.MAIN) => DrawStep
        /\ phase = PHASES.START => last.kind \in {"none", "turn", "active", "charge"}
      ]_vars

\* seat 1 has drawn its card in turn 1
C20_Witness ==
    /\ last.kind = "draw" /\ last.seat = 1 /\ turn = 1 /\ phase = PHASES.MAIN
    /\ Len(players[1].hand) = INITIAL_HAND_SIZE + 1

\* the promise of waitForPlayerAction exists, and input is accepted, exactly
\* while the engine is suspended in a human wait
WaitMatchesPosition ==
    /\ actionPromise <=> pc \in {"main_wait", "battle_wait"}
    /\ isProcessing <=> pc \notin {"main_wait", "battle_wait"}
    /\ pc \in {"main_wait", "battle_wait"} => isHumanTurn
    /\ pc = "main_wait" => phase = PHASES.MAIN
    /\ pc = "battle_wait" => phase = PHASES.BATTLE

WaitStep ==
    /\ (isHumanTurn /\ phase \in {PHASES.MAIN, PHASES.BATTLE} /\ phase' # phase) =>
          HumanWaitPending /\ last'.kind = "endPhase"
    /\ (pc \in {"main_wait", "battle_wait"} /\ pc' # pc) =>
          /\ last'.kind = "endPhase"
          /\ pc = "main_wait" =>
                \/ pc' = "battle_wait" /\ phase' = PHASES.BATTLE
                \/ pc' = "loop" /\ phase' = phase /\ Truthy(winner)
          /\ pc = "battle_wait" =>
                \/ pc' = "end" /\ phase' = PHASES.END
                \/ pc' = "loop" /\ phase' = phase /\ Truthy(winner)
          /\ gameVars' = gameVars
    /\ ~HumanWaitPending => last'.kind # "endPhase"

\* C21: on the human seat's turn the phase leaves MAIN or BATTLE only by an
\* end-phase request made while the wait is pending; the request resolves that
\* one wait and advances one phase (or returns to the loop when a winner is
\* set), changing no game state; the promise exists exactly during a wait, so a
\* request outside a wait finds none and nothing of it is kept.
C21_OneRequestOneWait == []WaitMatchesPosition /\ [][WaitStep]_vars

\* an end-phase request has moved the human seat from MAIN into the BATTLE wait
C21_Witness ==
    pc = "battle_wait" /\ last.kind = "endPhase" /\ phase = PHASES.BATTLE /\ actionPromise

\* C22 (as stated), in the form a finite run refutes: once a winner is decided
\* in a BATTLE phase the machine goes on by itself, so it is never suspended in
\* a human wait, dependent on an end-phase request, with the winner decided.
C22_NoWaitOnceWinnerDecided ==
    (winner # NoSeat /\ phase = PHASES.BATTLE) => ~HumanWaitPending

\* the card declares a skill whose action getEffect does not know
UnknownSkill(c) ==
    c # NoCard /\ HasSkill(c) /\ Card(c).skill.action \notin RegisteredEffects

\* the game state a play of c into slot s leaves when no skill is applied
PlainPlay(G, q, c, s) ==
    LET player == G.players[q]
        taken == [player EXCEPT !.reiki = @ - Card(c).cost,
                                !.hand = SelectSeq(@, LAMBDA x : x # c)]
    IN  [G EXCEPT !.players[q] =
            IF Card(c).type = CARD_TYPES.EVENT
            THEN [taken EXCEPT !.trash = Append(@, c)]
            ELSE [taken EXCEPT !.field[s] = c]]

HumanRequest == \E data \in ClickData : HandlePlayerAction(data)

\* C23: a human action request is applied only in PvE on seat 0's turn while
\* the engine is suspended in a wait, and leaves it suspended there; a play
\* is applied only in MAIN and an attack only in BATTLE; while the engine is
\* suspended nothing but such a request changes the game state, and while it
\* is not suspended no request is applied.
C23_InputOnlyWhileSuspended ==
    [][ /\ HumanRequest =>
              /\ gameMode = "PvE" /\ activePlayerIndex = 0
              /\ HumanWaitPending /\ pc' = pc /\ phase' = phase
              /\ last'.kind = "play" => phase = PHASES.MAIN /\ last'.seat = 0
              /\ last'.kind = "attack" => phase = PHASES.BATTLE /\ last'.seat = 0
        /\ (pc \in {"main_wait", "battle_wait"} /\ gameVars' # gameVars) => HumanRequest
        /\ (~HumanWaitPending /\ last'.seat = 0 /\ last'.kind \in {"play", "attack", "select"})
              => gameMode = "EvE" /\ last'.kind # "select"
      ]_vars

\* the human's attack request has been applied during the BATTLE wait
C23_Witness ==
    /\ last.kind = "attack" /\ last.seat = 0 /\ last.accepted
    /\ gameMode = "PvE" /\ pc = "battle_wait" /\ phase = PHASES.BATTLE

\* a play or an attack and the dispatch it made; an attack on an invalid
\* target and an attack that throws count as rejected
DispatchStep ==
    last'.kind \in {"play", "attack"} =>
        LET c == last'.card
            trigger == IF last'.kind = "play" THEN "onPlay" ELSE "onAttack"
            rejected == \/ ~last'.accepted
                        \/ last'.thrown
                        \/ last'.kind = "attack" /\ InvalidTarget
        IN  /\ last'.dispatched \in {0, 1}
            /\ last'.dispatched = 1 =>
                  /\ c # NoCard /\ HasSkill(c)
                  /\ Card(c).skill.trigger = trigger
                  /\ ~rejected

\* C25 (as stated): a play or an attack dispatches the card's skill at most
\* once, only if the skill's trigger is the trigger of the action (onPlay for
\* a play, onAttack for an attack), and never when the action is rejected or
\* does not complete.
C25_DispatchOnlyOnSuccess == [][DispatchStep]_vars

\* an accepted play of a unit or support card whose onPlay skill is
\* discardAndDraw
DiscardPlay ==
    /\ last'.kind = "play" /\ last'.accepted /\ players' # players
    /\ Dispatches(last'.card, "onPlay")
    /\ Card(last'.card).skill.action = "discardAndDraw"
    /\ Card(last'.card).type # CARD_TYPES.EVENT

\* C26 (as stated): the discard-and-draw skill with value N sends the N
\* lowest-power cards of the invoking seat's hand (ties by hand order, the
\* whole hand if it is shorter) to that seat's trash and then draws as many
\* cards from the end of its deck, whoever controls the seat.
C26_DiscardsWeakest ==
    [][DiscardPlay =>
          LET q == last'.seat
              hand == SelectSeq(players[q].hand, LAMBDA x : x # last'.card)
              n == Min(Len(hand), ValueOr(last'.card, 1))
              byPower == StableSort(hand, LAMBDA a, b : bp[a] < bp[b])
              deck == players[q].mainDeck
              m == Min(n, Len(deck))
          IN  /\ players'[q].trash = players[q].trash \o SubSeq(byPower, 1, n)
              /\ Len(players'[q].hand) = Len(hand) - n + m
              /\ players'[q].mainDeck = SubSeq(deck, 1, Len(deck) - m)]_vars

\* the game state drawing n cards for seat q leaves: min(n, deck size) cards
\* go from the end of q's deck to the end of its hand, nothing else changes
AfterDraw(G, q, n) ==
    LET deck == G.players[q].mainDeck
        m == IF n < Len(deck) THEN n ELSE Len(deck)
    IN  [G EXCEPT !.players[q].hand = @ \o [i \in 1..m |-> deck[Len(deck) + 1 - i]],
                  !.players[q].mainDeck = SubSeq(deck, 1, Len(deck) - m)]

\* an accepted play whose onPlay skill is the draw skill
DrawPlay ==
    /\ last'.kind = "play" /\ last'.accepted /\ players' # players
    /\ Dispatches(last'.card, "onPlay") /\ Card(last'.card).skill.action = "draw"

DrawCardsStep ==
    /\ (last'.kind = "draw" /\ pc = "draw") =>
          LET G == AfterDraw(CurrentG, last'.seat, last'.asked)
          IN  /\ <<players', bp', rested', winner'>> = <<G.players, G.bp, G.rested, G.winner>>
              /\ last'.drawn = Min(last'.asked, Len(players[last'.seat].mainDeck))
              /\ pc' \in {"main_wait", "main_ai"} /\ phase' = PHASES.MAIN
    /\ DrawPlay =>
          LET G == AfterDraw(PlainPlay(CurrentG, last'.seat, last'.card, last'.slot),
                             last'.seat, ValueOr(last'.card, 1))
          IN  /\ <<players', bp', rested', winner'>> = <<G.players, G.bp, G.rested, G.winner>>
              /\ pc' = pc
    /\ DiscardPlay =>
          LET deck == players[last'.seat].mainDeck
              hand == players[last'.seat].hand
              m == Min(Min(Len(hand) - 1, ValueOr(last'.card, 1)), Len(deck))
              after == players'[last'.seat]
          IN  /\ after.mainDeck = SubSeq(deck, 1, Len(deck) - m)
              /\ SubSeq(after.hand, Len(after.hand) - m + 1, Len(after.hand))
                     = [i \in 1..m |-> deck[Len(deck) + 1 - i]]
              /\ winner' = winner /\ pc' = pc

\* C27: a draw of n cards for a seat, in the draw step or by a draw or
\* discard-and-draw skill, moves exactly min(n, deck size) cards from the end
\* of that seat's deck to the end of its hand and changes nothing else; with
\* an empty deck nothing is drawn, no winner is set and the turn goes on.
C27_DrawMovesWhatTheDeckHas == [][DrawCardsStep]_vars

\* the draw step has just asked for a card from an empty deck and the turn
\* has gone on into MAIN without a winner
C27_Witness ==
    /\ last.kind = "draw" /\ last.asked = 1 /\ last.drawn = 0
    /\ players[last.seat].mainDeck = <<>>
    /\ phase = PHASES.MAIN /\ winner = NoSeat /\ pc \in {"main_wait", "main_ai"}

\* C28 (as stated): an attack by an un-rested attacker on an occupied
\* opposing slot always completes: nothing is thrown, the attacker ends rested
\* or in its seat's trash, and the turn loop is not aborted, whatever the
\* attacker's onAttack skill does to the targeted card.
C28_OccupiedTargetAttackCompletes ==
    [][(AttackStep /\ AttackerReady /\ last'.target \in Slots
          /\ players[Other(last'.seat)].field[last'.target] # NoCard) =>
          /\ ~last'.thrown
          /\ pc' # "aborted"
          /\ \/ rested'[AttackerBefore]
             \/ AttackerBefore \in SeqSet(players'[last'.seat].trash)]_vars

\* the engine has yielded: a human wait, a pacing delay of the turn head or
\* of the automated driver, the terminal notification, or a dead loop
Suspended ==
    pc \in {"start", "main_wait", "battle_wait", "main_ai", "battle_ai", "done", "aborted"}

\* C29 (as stated): whenever the engine is at a suspension point or has given
\* its terminal notification, every change of the game state made so far has
\* been followed by a state snapshot to the observer (ui.update).
C29_SnapshotAfterEveryMutation == Suspended => ~snapshotDue

\* every card instance seat q holds, in any zone
HeldCards(q) ==
    ZoneCards(q) \cup SeqSet(players[q].reikiDeck)
        \cup UNION {SeqSet(players[q].bases[b].gauges) : b \in 1..NUM_BASES}

SeatsHoldDisjointCards == HeldCards(0) \cap HeldCards(1) = {}

\* the un-rest step and an attack of a seat leave the rested flag and the
\* power of the cards on the other seat's field alone, unless the attacker's
\* skill or the combat is aimed at them
OwnCardsStep ==
    /\ (last'.kind = "active" /\ pc = "start") =>
          \A s \in Slots :
              LET c == players[Other(activePlayerIndex)].field[s]
              IN  c # NoCard => rested'[c] = rested[c] /\ bp'[c] = bp[c]
    /\ (AttackStep /\ AttackerReady /\ ~Dispatches(AttackerBefore, "onAttack")) =>
          \A s \in Slots :
              LET c == players[Other(last'.seat)].field[s]
              IN  c # NoCard => rested'[c] = rested[c] /\ bp'[c] = bp[c]

\* C30 (as stated): no card instance is held by both seats, and a seat's
\* un-rest step or plain attack never changes the rested flag or the power of a
\* card on the other seat's field.
C30_SeatsOwnTheirCards == []SeatsHoldDisjointCards /\ [][OwnCardsStep]_vars

(***************************************************************************)
(* Card conservation inside one seat.                                      *)
(***************************************************************************)
\* the cards dealt from the main card list (every card but the reiki card)
MainCards == {c \in Cards : Card(c).type # CARD_TYPES.REIKI}

\* how many places of sequence s hold card c
Occurrences(s, c) == Cardinality({i \in 1..Len(s) : s[i] = c})

\* how many places of seat q's main deck, hand, field slots, trash and base
\* gauge stacks hold card c
Copies(q, c) ==
    LET gaugeCopies[b \in 0..NUM_BASES] ==
            IF b = 0 THEN 0
            ELSE gaugeCopies[b - 1] + Occurrences(players[q].bases[b].gauges, c)
    IN  Occurrences(players[q].mainDeck, c) + Occurrences(players[q].hand, c)
          + Cardinality({s \in Slots : players[q].field[s] = c})
          + Occurrences(players[q].trash, c) + gaugeCopies[NUM_BASES]

\* C31: in every reachable state each main card of a seat stands in exactly
\* one place of that seat's main deck, hand, field slots, trash and base gauge
\* stacks, so no play, attack or skill duplicates a card, loses one or hands
\* one to the other seat, and the seat's card total never changes.
C31_CardsConserved == \A q \in Seats : \A c \in MainCards : Copies(q, c) = 1

\* a return-to-hand skill has just acted, a rested card stands in the hand of
\* the seat it was aimed at and some card has gone to a trash
C31_Witness ==
    /\ last.kind = "attack" /\ last.dispatched = 1
    /\ Card(last.card).skill.action = "returnUnitToHand"
    /\ \E i \in 1..Len(players[Other(last.seat)].hand) :
           rested[players[Other(last.seat)].hand[i]]
    /\ \E q \in Seats : Len(players[q].trash) > 0

(***************************************************************************)
(* Rested cards and attacks.                                               *)
(***************************************************************************)
\* an accepted attack is declared by an un-rested card and leaves it rested
AttackRestsStep ==
    (AttackStep /\ last'.accepted /\ AttackerBefore # NoCard
        /\ <<players, rested>>' # <<players, rested>>) =>
        ~rested[AttackerBefore] /\ rested'[AttackerBefore]

\* the step is activePhase of seat q
StartOf(q) == pc = "start" /\ activePlayerIndex = q /\ last'.kind = "active"

\* a rested card standing on a seat's field is not un-rested by any step but
\* activePhase of that seat
UnrestOnlyAtOwnStartStep ==
    \A q \in Seats : \A s \in Slots :
        LET c == players[q].field[s]
        IN  (c # NoCard /\ rested[c] /\ ~rested'[c]) => StartOf(q)

\* a rested card placed on a field by reviveFromTrash or by playCard stays
\* rested
ComesBackRestedStep ==
    (last'.kind = "play" /\ last'.accepted /\ players' # players) =>
        \A c \in Cards : rested[c] => rested'[c]

\* C32 (as stated): every accepted attack is declared by an un-rested card and
\* leaves it rested, and a rested card on a seat's field, revived or not, is
\* un-rested by no step other than the next START of that seat, so a card
\* attacks at most once per seat-turn.
C32_OneAttackPerSeatTurn ==
    [][AttackRestsStep /\ UnrestOnlyAtOwnStartStep /\ ComesBackRestedStep]_vars

(***************************************************************************)
(* The turn in which the winner is decided.                                *)
(***************************************************************************)
\* with the winner decided, the step neither enters END, nor runs the END
\* step (cleanup, seat switch, turn count), nor changes the seat or the turn
NoEndAfterWinStep ==
    winner # NoSeat =>
        /\ phase' # PHASES.END
        /\ ~(pc = "end" /\ pc' # "end")
        /\ activePlayerIndex' = activePlayerIndex
        /\ turn' = turn

\* with the winner decided the phase is not END
WinnerNeverInEnd == winner # NoSeat => phase # PHASES.END

\* C33 (as stated): a winner is decided only in a BATTLE phase, and once it is
\* decided, whichever seat won, the phase never becomes END, the END step
\* with its power reset never runs, and the active seat and the turn counter
\* keep the values they had when the winner was set.
C33_WinningTurnSkipsEnd ==
    /\ [][(winner = NoSeat /\ winner' # NoSeat) => phase = PHASES.BATTLE]_vars
    /\ []WinnerNeverInEnd
    /\ [][NoEndAfterWinStep]_vars

(***************************************************************************)
(* The rested flag of a card that is played.                               *)
(***************************************************************************)
\* an accepted play of a card that is not an event has put it on a field slot
EntersFieldStep ==
    /\ last'.kind = "play" /\ last'.accepted
    /\ players' # players
    /\ Card(last'.card).type # CARD_TYPES.EVENT
    /\ last'.slot \in Slots
    /\ players'[last'.seat].field[last'.slot] = last'.card

\* C34 (as stated): a card that enters a field slot by an accepted play from
\* hand is un-rested when the play returns, also when it was rested before a
\* return-to-hand skill put it back into its owner's hand.
C34_PlayedCardIsUnrested ==
    [][EntersFieldStep => ~rested'[last'.card]]_vars

=============================================================================
